---------------------------- MODULE Spec2Model ----------------------------
(***************************************************************************)
(* A model of claude_usage_monitor: credential resolution                  *)
(* (credentials.py), the usage client (api.py) and the two front ends      *)
(* (tray.py + popup.py + settings.py for Qt, indicator.py + ui/ for GTK).  *)
(*                                                                         *)
(* Conventions.  Python's None is the string "None" where the value is a   *)
(* string, the empty sequence << >> where it is an optional datetime, and  *)
(* the record Nil where it is an object.  A Python exception leaving a     *)
(* function is the record Raise(name).                                     *)
(***************************************************************************)
EXTENDS Integers, Sequences, FiniteSets, TLC

VARIABLES
    manualFile,     \* ~/.config/claude-usage-monitor/session.json
    firefox,        \* the entries of ~/.mozilla/firefox, in iterdir order
    chrome,         \* the two Chrome/Chromium cookie databases, in order
    ccFile,         \* ~/.claude/.credentials.json
    frontend,       \* "qt" (tray.py), "gtk" (indicator.py), or "none"
    api,            \* the front end's ClaudeAPI client, or Nil
    usage_data,     \* the front end's usage_data, or Nil
    usage_at,       \* the address of the object usage_data refers to, or "None"
    tray,           \* what the tray icon(s) show
    popup,          \* the front end's popup window, or Nil
    dialog,         \* the settings dialog, or Nil while none is open
    idle,           \* GTK: the _do_refresh callbacks queued with idle_add
    edited,         \* history: a settings edit has changed the manual file
    lastPoll,       \* history: the last call of fetch_usage by the front end
    probe           \* the last call of a function under test: its input and result

envVars == <<manualFile, firefox, chrome, ccFile>>
appVars == <<frontend, api, usage_data, usage_at, tray, popup, dialog, idle, edited,
             lastPoll>>
vars == <<manualFile, firefox, chrome, ccFile, frontend, api, usage_data, usage_at,
          tray, popup, dialog, idle, edited, lastPoll, probe>>

Nil == [kind |-> "nil"]
Raise(e) == [kind |-> "raise", exc |-> e]
IsRaise(r) == r.kind = "raise"

\* Python truthiness of an optional string: None and "" are falsy.
Truthy(s) == s \notin {"None", ""}

-----------------------------------------------------------------------------
(* The contents the credential sources can have. *)

\* Largest number of entries of the Firefox directory.
MaxProfiles == 2

ManualFiles ==
    {[kind |-> k] : k \in {"missing", "unreadable", "invalid_json", "nonobject"}}
    \cup {[kind |-> "object", session_key |-> s, org_id |-> o] :
            s \in {"None", "", "mk1"}, o \in {"None", "", "org1"}}

\* A Firefox directory entry: not a profile with a cookie database ("skip"),
\* a database whose copy or query fails ("error"), a database without the
\* cookie ("norow"), or the value of the cookie's row.
FirefoxEntries == {[kind |-> k] : k \in {"skip", "error", "norow"}}
                  \cup {[kind |-> "row", value |-> v] : v \in {"", "ffk"}}

FirefoxDirs == UNION {[1..n -> FirefoxEntries] : n \in 0..MaxProfiles}

ChromeEntries == {[kind |-> k] : k \in {"missing", "error", "norow"}}
                 \cup {[kind |-> "row", value |-> v] : v \in {"", "chk"}}

ChromeDbs == [1..2 -> ChromeEntries]

CCFiles ==
    {[kind |-> k] : k \in {"missing", "unreadable", "invalid_json", "nonobject"}}
    \cup {[kind |-> "object", oauth |-> [kind |-> k]] : k \in {"absent", "null", "nonobject"}}
    \cup {[kind |-> "object",
           oauth |-> [kind |-> "dict", accessToken |-> t, subscriptionType |-> s]] :
            t \in {"None", "", "tok"}, s \in {"absent", "pro"}}

-----------------------------------------------------------------------------
(* credentials.py *)

ClaudeCredentials(key, org, src, sub) ==
    [kind |-> "creds", session_key |-> key, org_id |-> org, source |-> src,
     subscription_type |-> sub]

\* A missing file gives None; IOError and JSONDecodeError are caught; data.get
\* on JSON that is not an object raises AttributeError, which is not.
get_manual_credentials(mf) ==
    CASE mf.kind = "missing" -> Nil
      [] mf.kind \in {"unreadable", "invalid_json"} -> Nil
      [] mf.kind = "nonobject" -> Raise("AttributeError")
      [] OTHER ->
            IF Truthy(mf.session_key)
            THEN [kind |-> "tuple", session_key |-> mf.session_key, org_id |-> mf.org_id]
            ELSE Nil

\* The loop over the profile directories from entry i on: the first row found
\* is returned, whatever its value.
RECURSIVE FirefoxFrom(_, _)
FirefoxFrom(dir, i) ==
    IF i > Len(dir) THEN "None"
    ELSE IF dir[i].kind = "row" THEN dir[i].value
    ELSE FirefoxFrom(dir, i + 1)

_get_firefox_cookie(dir) == FirefoxFrom(dir, 1)

\* The loop over the two database paths: a row is returned only if its value
\* is truthy.
RECURSIVE ChromeFrom(_, _)
ChromeFrom(dbs, i) ==
    IF i > Len(dbs) THEN "None"
    ELSE IF dbs[i].kind = "row" /\ Truthy(dbs[i].value) THEN dbs[i].value
    ELSE ChromeFrom(dbs, i + 1)

_get_chrome_cookie(dbs) == ChromeFrom(dbs, 1)

get_browser_session_key(dir, dbs) ==
    LET firefox_cookie == _get_firefox_cookie(dir)
        chrome_cookie == _get_chrome_cookie(dbs)
    IN  IF Truthy(firefox_cookie) THEN firefox_cookie
        ELSE IF Truthy(chrome_cookie) THEN chrome_cookie
        ELSE "None"

\* IOError, JSONDecodeError and KeyError are caught; the AttributeError of
\* data.get or oauth.get on a value that is not a dict is not.
get_claude_code_credentials(cf) ==
    CASE cf.kind = "missing" -> Nil
      [] cf.kind \in {"unreadable", "invalid_json"} -> Nil
      [] cf.kind = "nonobject" -> Raise("AttributeError")
      [] OTHER ->
            LET oauth == IF cf.oauth.kind = "absent"
                         THEN [kind |-> "dict", accessToken |-> "None",
                               subscriptionType |-> "absent"]
                         ELSE cf.oauth
            IN  IF oauth.kind # "dict" THEN Raise("AttributeError")
                ELSE IF ~Truthy(oauth.accessToken) THEN Nil
                ELSE ClaudeCredentials(oauth.accessToken, "None", "claude_code",
                        IF oauth.subscriptionType = "absent" THEN "unknown"
                        ELSE oauth.subscriptionType)

get_credentials(mf, dir, dbs, cf) ==
    LET manual == get_manual_credentials(mf)
        browser_key == get_browser_session_key(dir, dbs)
    IN  IF IsRaise(manual) THEN manual
        ELSE IF manual # Nil
        THEN ClaudeCredentials(manual.session_key, manual.org_id, "manual", "unknown")
        ELSE IF Truthy(browser_key)
        THEN ClaudeCredentials(browser_key, "None", "browser", "unknown")
        ELSE get_claude_code_credentials(cf)

-----------------------------------------------------------------------------
(* api.py: the usage record.  A usage fraction is kept in hundredths: the   *)
(* float u / 100 is the integer u, so the interval [0, 1] is 0..100.        *)

UsageData(short_usage, short_reset, long_usage, long_reset, sub, src, connected, err) ==
    [kind |-> "usage",
     short_term_usage |-> short_usage, short_term_reset |-> short_reset,
     long_term_usage |-> long_usage, long_term_reset |-> long_reset,
     subscription_type |-> sub, credential_source |-> src,
     is_connected |-> connected, error |-> err]

\* UsageData(credential_source=src, error=err, subscription_type=sub): every
\* other field keeps the dataclass default.
ErrorUsage(sub, src, err) == UsageData(0, << >>, 0, << >>, sub, src, FALSE, err)

-----------------------------------------------------------------------------
(* The JSON values the server can answer with. *)

Absent == [kind |-> "absent"]

\* The value of utilization / percentUsed: missing, a number, null, a string,
\* or an integer too large for a float (10**400).
UtilNums == {0, 50, 100, 150}
UtilVals == {Absent, [kind |-> "null"], [kind |-> "str"], [kind |-> "bigint"]}
            \cup {[kind |-> "num", n |-> n] : n \in UtilNums}

\* The value of resets_at / resetsAt: missing, null, a number of seconds, a
\* string that is no ISO date, or a number beyond the platform's time_t.
ResetTimes == {7200}
TsVals == {Absent, [kind |-> "null"], [kind |-> "badstr"], [kind |-> "huge"]}
          \cup {[kind |-> "secs", t |-> t] : t \in ResetTimes}

Dict(u, a, p, b) ==
    [kind |-> "dict", utilization |-> u, resets_at |-> a, percentUsed |-> p, resetsAt |-> b]
NonDict == [kind |-> "null"]
Num(n) == [kind |-> "num", n |-> n]
Secs(t) == [kind |-> "secs", t |-> t]

\* The values of one key of the body: missing, not a dict, a dict in the
\* shape of its schema (style "cur": utilization / resets_at, style "leg":
\* percentUsed / resetsAt), or a dict carrying the keys of both schemas.
ShapedVals == {<<u, Absent>> : u \in UtilVals}
              \cup {<<Num(50), a>> : a \in TsVals}
SectionVals(style) ==
    {Absent, NonDict,
     Dict(Num(50), Secs(7200), Num(100), Absent),
     Dict(Num(100), Absent, Num(50), Secs(7200))}
    \cup {IF style = "cur" THEN Dict(v[1], v[2], Absent, Absent)
                           ELSE Dict(Absent, Absent, v[1], v[2]) : v \in ShapedVals}

\* The two keys of one window: at most one present, or both with a few values.
BothCur == {NonDict, Dict(Num(50), Secs(7200), Absent, Absent),
            Dict([kind |-> "null"], Absent, Absent, Absent)}
BothLeg == {NonDict, Dict(Absent, Absent, Num(100), Absent),
            Dict(Absent, Absent, Num(150), Secs(7200))}
WindowVals ==
    {<<c, Absent>> : c \in SectionVals("cur")}
    \cup {<<Absent, l>> : l \in SectionVals("leg")}
    \cup (BothCur \X BothLeg)

\* response.json(): it raises on a body that is not JSON ("nonjson"); JSON
\* that is no object is null or a number ("scalar"), a string or list without
\* ("plain") or with ("keyed") a section name in it; or an object.
Bodies ==
    {[kind |-> k] : k \in {"nonjson", "scalar", "plain", "keyed"}}
    \cup {[kind |-> "object", five_hour |-> s[1], dailyUsage |-> s[2],
           seven_day |-> l[1], longTermUsage |-> l[2]] :
            s \in WindowVals, l \in WindowVals}

-----------------------------------------------------------------------------
(* api.py: the response parser. *)

Ok(v) == [kind |-> "ok", val |-> v]

\* A number too large for the integers of the model: n * 1000^k.
E3(n, k) == [kind |-> "e3", n |-> n, k |-> k]

\* ts > 1e12 for ts = n * 1000^k
AboveE12(ts) ==
    CASE ts.k = 0 -> FALSE
      [] ts.k = 1 -> ts.n > 1000000000
      [] ts.k = 2 -> ts.n > 1000000
      [] ts.k = 3 -> ts.n > 1000
      [] ts.k = 4 -> ts.n > 1
      [] OTHER -> ts.n > 0

\* datetime.fromtimestamp(n * 1000^k, tz=timezone.utc): an instant up to the
\* end of year 9999 (253402300799), ValueError or OSError beyond it while
\* the number fits the platform's time_t (2^63), OverflowError above that.
fromtimestamp(ts) ==
    LET date == CASE ts.k = 0 -> TRUE
                  [] ts.k = 1 -> ts.n <= 253402300
                  [] ts.k = 2 -> ts.n <= 253402
                  [] ts.k = 3 -> ts.n <= 253
                  [] OTHER -> ts.n = 0
        fits == CASE ts.k <= 3 -> TRUE
                  [] ts.k = 4 -> ts.n <= 9223372
                  [] ts.k = 5 -> ts.n <= 9223
                  [] ts.k = 6 -> ts.n <= 9
                  [] OTHER -> ts.n = 0
        thousands[i \in 0..ts.k] == IF i = 0 THEN ts.n ELSE 1000 * thousands[i - 1]
    IN  IF date THEN Ok(<<thousands[ts.k]>>)
        ELSE IF fits THEN Raise("ValueError")
        ELSE Raise("OverflowError")

\* The numeric branch of _parse_timestamp: a number above 1e12 is divided by
\* 1000; ValueError and OSError give None, any other exception leaves.
ParseNumber(ts) ==
    LET r == fromtimestamp(IF AboveE12(ts) THEN E3(ts.n, ts.k - 1) ELSE ts)
    IN  IF IsRaise(r) /\ r.exc \in {"ValueError", "OSError"} THEN Ok(<< >>) ELSE r

\* ts as a datetime: falsy values (null, 0, "") give None; a number goes
\* through fromtimestamp, whose OverflowError is not among the caught
\* (ValueError, OSError), and true is the number 1; a string goes through
\* fromisoformat, whose ValueError is caught; a list or an object gives None.
_parse_timestamp(ts) ==
    CASE ts.kind = "null" -> Ok(<< >>)
      [] ts.kind = "secs" -> Ok(<<ts.t>>)
      [] ts.kind = "huge" -> Raise("OverflowError")
      [] ts.kind = "badstr" -> Ok(<< >>)
      [] ts.kind \in {"zero", "emptystr", "list"} -> Ok(<< >>)
      [] ts.kind = "true" -> Ok(<<1>>)
      [] ts.kind = "e3" -> ParseNumber(ts)

\* sec.get(key, 0) / 100
Div100(v) ==
    CASE v.kind = "absent" -> Ok(0)
      [] v.kind = "num" -> Ok(v.n)
      [] v.kind \in {"null", "str"} -> Raise("TypeError")
      [] v.kind = "bigint" -> Raise("OverflowError")

\* `key in data` and data[key]
HasKey(data, key) ==
    CASE data.kind = "scalar" -> Raise("TypeError")
      [] data.kind = "plain" -> Ok(FALSE)
      [] data.kind = "keyed" -> Ok(TRUE)
      [] data.kind = "object" -> Ok(data[key] # Absent)
GetItem(data, key) ==
    IF data.kind = "object" THEN Ok(data[key]) ELSE Raise("TypeError")

\* What the statements of one section do: the assignments made (usage, reset)
\* before the section ends or an exception leaves it (exc).
Step(exc, usage, reset) == [exc |-> exc, usage |-> usage, reset |-> reset]
NoStep == Step("none", << >>, << >>)

ParseSection(sec, utilKey, tsKey) ==
    IF sec.kind # "dict" THEN NoStep
    ELSE LET d == Div100(sec[utilKey])
         IN  IF IsRaise(d) THEN Step(d.exc, << >>, << >>)
             ELSE IF sec[tsKey] = Absent THEN Step("none", <<d.val>>, << >>)
             ELSE LET r == _parse_timestamp(sec[tsKey])
                  IN  IF IsRaise(r) THEN Step(r.exc, <<d.val>>, << >>)
                      ELSE Step("none", <<d.val>>, <<r.val>>)

\* if curKey in data: ... elif legKey in data: ...
ParseWindow(data, curKey, legKey) ==
    LET hasCur == HasKey(data, curKey)
        hasLeg == HasKey(data, legKey)
    IN  IF IsRaise(hasCur) THEN Step(hasCur.exc, << >>, << >>)
        ELSE IF hasCur.val
        THEN LET sec == GetItem(data, curKey)
             IN  IF IsRaise(sec) THEN Step(sec.exc, << >>, << >>)
                 ELSE ParseSection(sec.val, "utilization", "resets_at")
        ELSE IF hasLeg.val
        THEN LET sec == GetItem(data, legKey)
             IN  IF IsRaise(sec) THEN Step(sec.exc, << >>, << >>)
                 ELSE ParseSection(sec.val, "percentUsed", "resetsAt")
        ELSE NoStep

Assigned(step_val, old) == IF step_val = << >> THEN old ELSE step_val[1]
CaughtByParser == {"KeyError", "TypeError", "ValueError"}

\* One try block holds both windows: an exception in the short-term part
\* skips the long-term part; KeyError, TypeError and ValueError end the
\* parse with what was assigned so far, any other exception leaves it.
_parse_usage_response(creds, data) ==
    LET sub == IF creds # Nil THEN creds.subscription_type ELSE "unknown"
        short == ParseWindow(data, "five_hour", "dailyUsage")
        long == IF short.exc = "none"
                THEN ParseWindow(data, "seven_day", "longTermUsage")
                ELSE Step(short.exc, << >>, << >>)
    IN  IF long.exc \notin CaughtByParser \cup {"none"} THEN Raise(long.exc)
        ELSE UsageData(Assigned(short.usage, 0), Assigned(short.reset, << >>),
                       Assigned(long.usage, 0), Assigned(long.reset, << >>),
                       sub, "unknown", TRUE, "None")

-----------------------------------------------------------------------------
(* api.py: organization-id discovery and fetch_usage. *)

\* The answers to GET /api/bootstrap: an exception of the session, or a
\* response with a status and a body.
BootAccounts ==
    {Absent, [kind |-> "null"]}
    \cup {[kind |-> "dict", memberships |-> m] :
            m \in {Absent, [kind |-> "empty"]}
                  \cup {[kind |-> "list", uuid |-> u] : u \in {"None", "orgB"}}}
BootOrganizations ==
    {Absent, [kind |-> "empty"]}
    \cup {[kind |-> "list", uuid |-> u, id |-> i] :
            u \in {"None", "orgC"}, i \in {"None", "orgD"}}
BootBodies ==
    {[kind |-> k] : k \in {"nonjson", "scalar"}}
    \cup {[kind |-> "object", account |-> a, organizations |-> o] :
            a \in BootAccounts, o \in BootOrganizations}
BootOutcomes ==
    {[kind |-> "exc"]}
    \cup {[kind |-> "resp", status |-> 401, body |-> [kind |-> "nonjson"]]}
    \cup {[kind |-> "resp", status |-> 200, body |-> b] : b \in BootBodies}

\* Every exception is caught and gives None.  A non-empty memberships list
\* decides the result, whether or not its first organization has a uuid.
_get_organization_id(boot) ==
    IF boot.kind = "exc" \/ boot.status # 200 \/ boot.body.kind # "object" THEN "None"
    ELSE LET account == boot.body.account
             orgs == boot.body.organizations
         IN  IF account.kind = "null" THEN "None"
             ELSE IF account.kind = "dict" /\ account.memberships.kind = "list"
             THEN account.memberships.uuid
             ELSE IF orgs.kind = "list"
             THEN (IF Truthy(orgs.uuid) THEN orgs.uuid ELSE orgs.id)
             ELSE "None"

\* The answers to the usage GET: an exception of the session, or a response.
\* `cloudflare` says whether response.text contains "Just a moment".
Statuses == {200, 401, 403, 404, 500}
HttpExceptions == {"Timeout", "ConnectionError", "SSLError"}
HttpOutcomes ==
    {[kind |-> "exc", exc |-> e] : e \in HttpExceptions}
    \cup {[kind |-> "resp", status |-> 200, cloudflare |-> FALSE, body |-> b] : b \in Bodies}
    \cup {[kind |-> "resp", status |-> c, cloudflare |-> FALSE, body |-> [kind |-> "nonjson"]] :
            c \in Statuses \ {200}}
    \cup {[kind |-> "resp", status |-> 403, cloudflare |-> TRUE, body |-> [kind |-> "nonjson"]]}

\* f"HTTP {response.status_code}" and str(e)
HttpText(status) ==
    CASE status = 404 -> "HTTP 404"
      [] status = 500 -> "HTTP 500"
      [] status = 401 -> "HTTP 401"
      [] status = 403 -> "HTTP 403"
      [] status = 200 -> "HTTP 200"
StrOf(exc) ==
    CASE exc = "OverflowError" -> "str(OverflowError)"
      [] exc = "ValueError" -> "str(ValueError)"
      [] exc = "TypeError" -> "str(TypeError)"
      [] exc = "KeyError" -> "str(KeyError)"
      [] exc = "SSLError" -> "str(SSLError)"
      [] exc = "Timeout" -> "str(Timeout)"
      [] exc = "ConnectionError" -> "str(ConnectionError)"

\* fetch_usage without its last except clause.
FetchExcept_TwoClauses(creds, exc) ==
    IF exc = "Timeout" THEN ErrorUsage("unknown", creds.source, "Timed out")
    ELSE IF exc = "ConnectionError" THEN ErrorUsage("unknown", creds.source, "Connection failed")
    ELSE Raise(exc)

\* fetch_usage without its clauses for Timeout and ConnectionError.
FetchExcept_LastClauseOnly(creds, exc) ==
    ErrorUsage("unknown", creds.source, StrOf(exc))

\* The except clauses of fetch_usage, in their order.
FetchExcept(creds, exc) ==
    IF exc = "Timeout" THEN ErrorUsage("unknown", creds.source, "Timed out")
    ELSE IF exc = "ConnectionError" THEN ErrorUsage("unknown", creds.source, "Connection failed")
    ELSE ErrorUsage("unknown", creds.source, StrOf(exc))

\* The try block without the assignment to usage.credential_source on 200.
FetchResponse_SourceNotSet(creds, http) ==
    IF http.kind = "exc" THEN FetchExcept(creds, http.exc)
    ELSE IF http.status = 200
    THEN IF http.body.kind = "nonjson" THEN FetchExcept(creds, "ValueError")
         ELSE LET usage == _parse_usage_response(creds, http.body)
              IN  IF IsRaise(usage) THEN FetchExcept(creds, usage.exc)
                  ELSE usage
    ELSE IF http.status = 401
    THEN ErrorUsage("unknown", creds.source, "Session expired. Update your session key.")
    ELSE IF http.status = 403
    THEN IF http.cloudflare
         THEN ErrorUsage("unknown", creds.source, "Blocked by Cloudflare. Try again later.")
         ELSE ErrorUsage("unknown", creds.source, "Access forbidden")
    ELSE ErrorUsage("unknown", creds.source, HttpText(http.status))

\* The try block of fetch_usage once the organization id is known.
FetchResponse(creds, http) ==
    IF http.kind = "exc" THEN FetchExcept(creds, http.exc)
    ELSE IF http.status = 200
    THEN IF http.body.kind = "nonjson" THEN FetchExcept(creds, "ValueError")
         ELSE LET usage == _parse_usage_response(creds, http.body)
              IN  IF IsRaise(usage) THEN FetchExcept(creds, usage.exc)
                  ELSE [usage EXCEPT !.credential_source = creds.source]
    ELSE IF http.status = 401
    THEN ErrorUsage("unknown", creds.source, "Session expired. Update your session key.")
    ELSE IF http.status = 403
    THEN IF http.cloudflare
         THEN ErrorUsage("unknown", creds.source, "Blocked by Cloudflare. Try again later.")
         ELSE ErrorUsage("unknown", creds.source, "Access forbidden")
    ELSE ErrorUsage("unknown", creds.source, HttpText(http.status))

\* `self.creds.org_id or ...` with a test for None in place of truthiness.
NeedsDiscovery_OnlyNone(creds) == creds.org_id = "None"

\* `self.creds.org_id or ...`: the right operand is evaluated when the
\* stored organization id is falsy.
NeedsDiscovery(creds) == ~Truthy(creds.org_id)

\* org_id = self.creds.org_id or self._get_organization_id()
OrgId(creds, boot) ==
    IF NeedsDiscovery(creds) THEN _get_organization_id(boot) ELSE creds.org_id

\* fetch_usage without the test of org_id.
fetch_usage_OrgNotTested(creds, boot, http) ==
    IF creds = Nil
    THEN ErrorUsage("unknown", "unknown", "No credentials. Click Settings to configure.")
    ELSE FetchResponse(creds, http)

fetch_usage(creds, boot, http) ==
    IF creds = Nil
    THEN ErrorUsage("unknown", "unknown", "No credentials. Click Settings to configure.")
    ELSE IF ~Truthy(OrgId(creds, boot))
    THEN ErrorUsage(creds.subscription_type, creds.source,
                    "Could not get organization ID. Check your session key.")
    ELSE FetchResponse(creds, http)

\* The requests one call of fetch_usage sends, in order.
RequestsOf(creds, boot) ==
    IF creds = Nil THEN << >>
    ELSE (IF NeedsDiscovery(creds) THEN <<"bootstrap">> ELSE << >>)
         \o (IF Truthy(OrgId(creds, boot)) THEN <<"usage">> ELSE << >>)

\* ClaudeAPI(): the credential is resolved once, in the constructor.
ClaudeAPI(creds) == [kind |-> "api", creds |-> creds]

\* The state of the front-end variables where no front end runs.
NoFrontEnd ==
    /\ frontend = "none"
    /\ usage_data = Nil
    /\ usage_at = "None"
    /\ tray = Nil
    /\ popup = Nil
    /\ dialog = Nil
    /\ idle = 0
    /\ edited = FALSE
    /\ lastPoll = Nil

-----------------------------------------------------------------------------
(* Credential resolution as a function of the sources: SpecCreds. *)

InitCreds ==
    /\ manualFile \in ManualFiles
    /\ firefox \in FirefoxDirs
    /\ chrome \in ChromeDbs
    /\ ccFile \in CCFiles
    /\ NoFrontEnd
    /\ api = Nil
    /\ probe = Nil

CallGetCredentials ==
    /\ probe = Nil
    /\ probe' = [kind |-> "get_credentials",
                 result |-> get_credentials(manualFile, firefox, chrome, ccFile)]
    /\ UNCHANGED <<envVars, appVars>>

NextCreds == CallGetCredentials

SpecCreds == InitCreds /\ [][NextCreds]_vars


-----------------------------------------------------------------------------
(* One call of fetch_usage on a client, as a function of the client's       *)
(* credential and of the answers of the server: SpecFetch.                  *)

\* The credentials get_credentials can hand to a client.
ClientCreds ==
    {ClaudeCredentials("mk1", o, "manual", "unknown") : o \in {"None", "", "org1"}}
    \cup {ClaudeCredentials("ffk", "None", "browser", "unknown")}
    \cup {ClaudeCredentials("tok", "None", "claude_code", t) : t \in {"unknown", "pro"}}

NoFiles ==
    /\ manualFile = [kind |-> "missing"]
    /\ firefox = << >>
    /\ chrome = [i \in 1..2 |-> [kind |-> "missing"]]
    /\ ccFile = [kind |-> "missing"]

InitFetch ==
    /\ NoFiles
    /\ NoFrontEnd
    /\ api \in {ClaudeAPI(c) : c \in ClientCreds \cup {Nil}}
    /\ probe = Nil

\* The answers that were not asked for are recorded as "unused".
CallFetchUsage ==
    /\ probe = Nil
    /\ \E boot \in BootOutcomes, http \in HttpOutcomes :
         LET sent == RequestsOf(api.creds, boot)
             has(r) == \E i \in 1..Len(sent) : sent[i] = r
         IN  probe' = [kind |-> "fetch_usage",
                       boot |-> IF has("bootstrap") THEN boot ELSE [kind |-> "unused"],
                       http |-> IF has("usage") THEN http ELSE [kind |-> "unused"],
                       requests |-> sent,
                       result |-> fetch_usage(api.creds, boot, http)]
    /\ UNCHANGED <<envVars, appVars>>

NextFetch == CallFetchUsage

SpecFetch == InitFetch /\ [][NextFetch]_vars

-----------------------------------------------------------------------------
(* api.py: the display properties of UsageData.  A usage fraction is kept   *)
(* in hundredths, so the float u / 100 is the integer u.                    *)

\* The hundredths u up to 200 for which the float product (u / 100) * 100
\* falls just below u, so that int() gives u - 1.
TruncatedHundredths == {29, 57, 58, 113, 114, 115, 116}

\* int(self.short_term_usage * 100), int(self.long_term_usage * 100)
Percent(u) == IF u \in TruncatedHundredths THEN u - 1 ELSE u
short_term_percent(ud) == Percent(ud.short_term_usage)
long_term_percent(ud) == Percent(ud.long_term_usage)

\* A datetime is <<t>> when it is aware with time zone UTC, t being its
\* instant in seconds since the epoch; it is <<wall, tz>> when its clock
\* reading is `wall` (seconds since 1970-01-01T00:00:00 on that clock) and
\* its tzinfo is tz: "None" for a naive value, else the name of an offset.
UtcOffset(tz) ==
    CASE tz = "+00:00" -> 0
      [] tz = "+02:00" -> 7200
      [] tz = "-05:00" -> -18000

\* The instant of reset_time once a naive value has got tzinfo=timezone.utc.
InstantOf(reset_time) ==
    IF Len(reset_time) = 1 THEN reset_time[1]
    ELSE IF reset_time[2] = "None" THEN reset_time[1]
    ELSE reset_time[1] - UtcOffset(reset_time[2])

\* _format_reset with the minutes taken from all the seconds left.
_format_reset_MinutesOfAll(reset_time, now) ==
    IF reset_time = << >> THEN "Unknown"
    ELSE LET total_seconds == InstantOf(reset_time) - now
             hours == total_seconds \div 3600
             minutes == total_seconds \div 60
         IN  IF total_seconds <= 0 THEN "Now"
             ELSE IF hours > 0 THEN ToString(hours) \o "h " \o ToString(minutes) \o "m"
             ELSE ToString(minutes) \o "m"

\* The text for the time left until reset_time, read at the instant now.
_format_reset(reset_time, now) ==
    IF reset_time = << >> THEN "Unknown"
    ELSE LET total_seconds == InstantOf(reset_time) - now
             hours == total_seconds \div 3600
             minutes == (total_seconds % 3600) \div 60
         IN  IF total_seconds <= 0 THEN "Now"
             ELSE IF hours > 0 THEN ToString(hours) \o "h " \o ToString(minutes) \o "m"
             ELSE ToString(minutes) \o "m"
short_term_reset_str(ud, now) == _format_reset(ud.short_term_reset, now)
long_term_reset_str(ud, now) == _format_reset(ud.long_term_reset, now)

\* has_credentials(): get_credentials() is not None
has_credentials(mf, dir, dbs, cf) ==
    LET creds == get_credentials(mf, dir, dbs, cf)
    IN  IF IsRaise(creds) THEN creds ELSE Ok(creds # Nil)

-----------------------------------------------------------------------------
(* tray.py, popup.py, settings.py: the Qt front end. *)

Grey == "#6B7280"
get_5h_color(usage) ==
    IF usage >= 90 THEN "#EF4444" ELSE IF usage >= 70 THEN "#F97316" ELSE "#22C55E"
get_7d_color(usage) ==
    IF usage >= 90 THEN "#7C3AED" ELSE IF usage >= 70 THEN "#8B5CF6" ELSE "#06B6D4"

\* create_ring_icon(percentage, color)
create_ring_icon(percentage, color) == <<percentage, color>>

\* The two tray icons and their tooltips.
QtTray(icon, tip, icon_7d, tip_7d) ==
    [icon |-> icon, tip |-> tip, icon_7d |-> icon_7d, tip_7d |-> tip_7d]

\* The icons as UsageTrayIcon.__init__ leaves them.
QtTrayInit ==
    QtTray(create_ring_icon(0, Grey), "Claude 5-Hour Usage",
           create_ring_icon(0, Grey), "Claude 7-Day Usage")

Qt_update_disconnected ==
    QtTray(create_ring_icon(0, Grey), "Claude 5-Hour - Not connected",
           create_ring_icon(0, Grey), "Claude 7-Day - Not connected")

\* UsageTrayIcon._update_display without the test of usage_data.is_connected.
Qt_update_display_AnyRecord(ud, now) ==
    IF ud = Nil THEN Qt_update_disconnected
    ELSE QtTray(create_ring_icon(short_term_percent(ud), get_5h_color(ud.short_term_usage)),
                "5-Hour: " \o ToString(short_term_percent(ud)) \o "% (resets in "
                    \o short_term_reset_str(ud, now) \o ")",
                create_ring_icon(long_term_percent(ud), get_7d_color(ud.long_term_usage)),
                "7-Day: " \o ToString(long_term_percent(ud)) \o "% (resets in "
                    \o long_term_reset_str(ud, now) \o ")")

\* UsageTrayIcon._update_display
Qt_update_display(ud, now) ==
    IF ud = Nil \/ ~ud.is_connected THEN Qt_update_disconnected
    ELSE QtTray(create_ring_icon(short_term_percent(ud), get_5h_color(ud.short_term_usage)),
                "5-Hour: " \o ToString(short_term_percent(ud)) \o "% (resets in "
                    \o short_term_reset_str(ud, now) \o ")",
                create_ring_icon(long_term_percent(ud), get_7d_color(ud.long_term_usage)),
                "7-Day: " \o ToString(long_term_percent(ud)) \o "% (resets in "
                    \o long_term_reset_str(ud, now) \o ")")

\* DualRingWidget.set_progress clamps each value to [0, 1].
Clamp(u) == IF u < 0 THEN 0 ELSE IF u > 100 THEN 100 ELSE u

\* TimerRow.set_data(remaining, reset_time): the two labels of a row.
set_data(remaining, reset_time) ==
    <<remaining, IF reset_time = << >> THEN "--:--"
                 ELSE "strftime(" \o ToString(reset_time[1]) \o ")">>

\* The Qt popup: the ring and the two timer rows.
QtPopup(visible, ring, row_5h, row_7d) ==
    [visible |-> visible, ring |-> ring, row_5h |-> row_5h, row_7d |-> row_7d]

\* What the widgets of a new popup show before any update.
QtPopupBlank == QtPopup(TRUE, <<0, 0>>, <<"--", "--:--">>, <<"--", "--:--">>)

\* UsagePopup.update_data
update_data(p, ud, now) ==
    IF ud = Nil \/ ~ud.is_connected
    THEN [p EXCEPT !.ring = <<0, 0>>,
                   !.row_5h = set_data("--", << >>),
                   !.row_7d = set_data("--", << >>)]
    ELSE [p EXCEPT !.ring = <<Clamp(ud.short_term_usage), Clamp(ud.long_term_usage)>>,
                   !.row_5h = set_data(short_term_reset_str(ud, now), ud.short_term_reset),
                   !.row_7d = set_data(long_term_reset_str(ud, now), ud.long_term_reset)]

\* UsagePopup(usage_data), then show()
QtUsagePopup(ud, now) == IF ud = Nil THEN QtPopupBlank ELSE update_data(QtPopupBlank, ud, now)

-----------------------------------------------------------------------------
(* indicator.py, icons.py, ui/usage_popup.py, ui/settings_dialog.py: GTK. *)

\* DynamicIconManager.get_icon_path: the levels rounded to the nearest 5%.
CacheKey(u) == ((2 * u + 5) \div 10) * 5
get_icon_path(short_term, long_term) ==
    "usage_" \o ToString(CacheKey(short_term)) \o "_" \o ToString(CacheKey(long_term)) \o ".svg"
get_disconnected_icon_path == "disconnected.svg"

GtkTray(icon, label) == [icon |-> icon, label |-> label]

\* The indicator as UsageIndicator.__init__ leaves it.
GtkTrayInit == GtkTray(get_disconnected_icon_path, "")

Gtk_update_disconnected == GtkTray(get_disconnected_icon_path, "")

\* _update_display taking the countdown of the short window in both cases.
Gtk_update_display_ShortCountdown(ud, now) ==
    IF ud = Nil THEN Gtk_update_disconnected
    ELSE IF ~ud.is_connected THEN Gtk_update_disconnected
    ELSE GtkTray(get_icon_path(ud.short_term_usage, ud.long_term_usage),
                 IF short_term_percent(ud) >= long_term_percent(ud)
                 THEN ToString(short_term_percent(ud)) \o "% - " \o short_term_reset_str(ud, now)
                 ELSE ToString(long_term_percent(ud)) \o "% - " \o short_term_reset_str(ud, now))

\* UsageIndicator._update_display; the separator of the label, a middle dot
\* between spaces, is written " - ".
Gtk_update_display(ud, now) ==
    IF ud = Nil THEN Gtk_update_disconnected
    ELSE IF ~ud.is_connected THEN Gtk_update_disconnected
    ELSE GtkTray(get_icon_path(ud.short_term_usage, ud.long_term_usage),
                 IF short_term_percent(ud) >= long_term_percent(ud)
                 THEN ToString(short_term_percent(ud)) \o "% - " \o short_term_reset_str(ud, now)
                 ELSE ToString(long_term_percent(ud)) \o "% - " \o long_term_reset_str(ud, now))

\* The GTK popup: the content box with the two cards, and the error box.
\* error_box has no_show_all set, so that show_all() on it shows nothing.
GtkPopup(visible, content_visible, error_text, short, long) ==
    [visible |-> visible, content_visible |-> content_visible,
     error_visible |-> FALSE, error_text |-> error_text,
     short_term_progress |-> short[1], short_term_reset |-> short[2],
     long_term_progress |-> long[1], long_term_reset |-> long[2]]

\* What the widgets of a new popup hold before any update.
GtkPopupBlank == GtkPopup(FALSE, FALSE, "", <<0, "--">>, <<0, "--">>)

\* UsagePopup.update
Gtk_update(p, ud, now) ==
    IF ~ud.is_connected
    THEN [p EXCEPT !.content_visible = FALSE,
                   !.error_text = IF ud.error # "None" THEN ud.error ELSE "Not connected"]
    ELSE [p EXCEPT !.error_visible = FALSE,
                   !.content_visible = TRUE,
                   !.short_term_progress = Clamp(ud.short_term_usage),
                   !.short_term_reset = short_term_reset_str(ud, now),
                   !.long_term_progress = Clamp(ud.long_term_usage),
                   !.long_term_reset = long_term_reset_str(ud, now)]

\* UsagePopup(usage_data): the update, then show_all() on the window, which
\* shows the content box again and leaves the error box as it is.
GtkUsagePopup(ud, now) ==
    LET p == IF ud = Nil THEN GtkPopupBlank ELSE Gtk_update(GtkPopupBlank, ud, now)
    IN  [p EXCEPT !.visible = TRUE, !.content_visible = TRUE]

-----------------------------------------------------------------------------
(* The display functions on their own: SpecDisplay.  Each action applies    *)
(* one of them to an input and records input and result in probe.           *)

\* Largest utilization the server reports, in percent.
MaxUtilization == 100

\* config.py: the Config dataclass with its defaults, and a config.json that
\* sets other thresholds.
Config(warning, critical) ==
    [kind |-> "config", refresh_interval |-> 5,
     warning_threshold |-> warning, critical_threshold |-> critical]
Configs == {Config(50, 80), Config(70, 90)}

\* icons.py: get_color_for_usage(usage, is_long_term)
get_color_for_usage(usage, is_long_term) ==
    IF is_long_term
    THEN IF usage >= 90 THEN "#7C3AED" ELSE IF usage >= 70 THEN "#8B5CF6" ELSE "#06B6D4"
    ELSE IF usage >= 90 THEN "#EF4444" ELSE IF usage >= 70 THEN "#F97316" ELSE "#22C55E"

\* The reset times and clock readings the countdown is tried on: around the
\* minute, the hour, the day and the week, as UTC, naive and offset values.
CountdownSeconds == {0, 1, 59, 60, 61, 3599, 3600, 3661, 86399, 90061, 604800}
DisplayResets ==
    {<< >>}
    \cup {<<t>> : t \in CountdownSeconds}
    \cup {<<t, tz>> : t \in CountdownSeconds, tz \in {"None", "+02:00"}}
DisplayNows == {0, 60, 3600}

\* The records the indicator is tried on.
DisplayUsages == {0, 28, 29, 50, 100}
DisplayRecords ==
    {UsageData(s, sr, l, lr, "pro", "manual", c, IF c THEN "None" ELSE "Timed out") :
        s \in DisplayUsages, l \in DisplayUsages,
        sr \in {<< >>, <<3600>>}, lr \in {<< >>, <<604800>>}, c \in BOOLEAN}

\* The body {"five_hour": {"utilization": u}, "seven_day": {"utilization": u}}
UtilizationBody(u) ==
    [kind |-> "object", five_hour |-> Dict(Num(u), Absent, Absent, Absent),
     dailyUsage |-> Absent, seven_day |-> Dict(Num(u), Absent, Absent, Absent),
     longTermUsage |-> Absent]

InitDisplay ==
    /\ NoFiles
    /\ NoFrontEnd
    /\ api = ClaudeAPI(ClaudeCredentials("mk1", "org1", "manual", "unknown"))
    /\ probe = Nil

\* _parse_usage_response on a body reporting u, then the two percent properties.
CallPercent ==
    /\ probe = Nil
    /\ \E u \in 0..MaxUtilization :
         \E ud \in {_parse_usage_response(api.creds, UtilizationBody(u))} :
             probe' = [kind |-> "percent", utilization |-> u, record |-> ud,
                       short_term_percent |-> short_term_percent(ud),
                       long_term_percent |-> long_term_percent(ud)]
    /\ UNCHANGED <<envVars, appVars>>

CallFormatReset ==
    /\ probe = Nil
    /\ \E reset_time \in DisplayResets, now \in DisplayNows :
         probe' = [kind |-> "_format_reset", reset_time |-> reset_time, now |-> now,
                   text |-> _format_reset(reset_time, now)]
    /\ UNCHANGED <<envVars, appVars>>

\* The colours of the 5-hour ring for a usage of u hundredths, the
\* configuration being config.
CallColor ==
    /\ probe = Nil
    /\ \E u \in 0..MaxUtilization, config \in Configs :
         probe' = [kind |-> "color", usage |-> u, config |-> config,
                   icon |-> get_color_for_usage(u, FALSE),
                   tray |-> get_5h_color(u)]
    /\ UNCHANGED <<envVars, appVars>>

CallGtkUpdateDisplay ==
    /\ probe = Nil
    /\ \E ud \in DisplayRecords \cup {Nil}, now \in DisplayNows :
         probe' = [kind |-> "_update_display", record |-> ud, now |-> now,
                   tray |-> Gtk_update_display(ud, now)]
    /\ UNCHANGED <<envVars, appVars>>

NextDisplay ==
    \/ CallPercent
    \/ CallFormatReset
    \/ CallColor
    \/ CallGtkUpdateDisplay

SpecDisplay == InitDisplay /\ [][NextDisplay]_vars

-----------------------------------------------------------------------------
(* The running application: Spec.  The front end is chosen at start; the    *)
(* handlers of the event loop are the actions.  A handler that an exception *)
(* leaves keeps the assignments it made before.                             *)

\* Largest number of queued _do_refresh callbacks.
MaxIdle == 2

\* The instants at which a handler reads the clock.
Nows == {0, 7200}

\* The sources at start, and the answers of the server while the
\* application runs.
AppManualFiles ==
    {[kind |-> "missing"],
     [kind |-> "object", session_key |-> "mk1", org_id |-> "org1"]}
AppFirefoxDirs == {<< >>}
AppCCFiles ==
    {[kind |-> "missing"], [kind |-> "nonobject"],
     [kind |-> "object",
      oauth |-> [kind |-> "dict", accessToken |-> "tok", subscriptionType |-> "pro"]]}
AppBoots ==
    {[kind |-> "exc"],
     [kind |-> "resp", status |-> 200,
      body |-> [kind |-> "object", account |-> Absent,
                organizations |-> [kind |-> "list", uuid |-> "orgC", id |-> "None"]]]}
AppBodies ==
    {[kind |-> "object", five_hour |-> Dict(Num(50), Secs(7200), Absent, Absent),
      dailyUsage |-> Absent, seven_day |-> Dict(Num(100), Absent, Absent, Absent),
      longTermUsage |-> Absent],
     [kind |-> "object", five_hour |-> Dict(Num(50), [kind |-> "huge"], Absent, Absent),
      dailyUsage |-> Absent, seven_day |-> Absent, longTermUsage |-> Absent]}
AppHttp ==
    {[kind |-> "exc", exc |-> "Timeout"],
     [kind |-> "resp", status |-> 401, cloudflare |-> FALSE, body |-> [kind |-> "nonjson"]]}
    \cup {[kind |-> "resp", status |-> 200, cloudflare |-> FALSE, body |-> b] : b \in AppBodies}

\* What the user types into the session key and organization id entries.
TypedKeys == {"", "  ", " mk2 "}
TypedOrgs == {"", "org2"}

\* An entry text taken as typed.
strip_KeepsSpaces(text) == text

\* str.strip() on the typed texts.
strip(text) == IF text = " mk2 " THEN "mk2" ELSE IF text = "  " THEN "" ELSE text

\* save_manual_credentials updating the file it finds: an empty organization
\* id leaves the stored one in place.
save_manual_credentials_KeepsOldOrg(session_key, org_id) ==
    [kind |-> "object", session_key |-> session_key,
     org_id |-> IF org_id = "" /\ manualFile.kind = "object" THEN manualFile.org_id
                ELSE org_id]

\* save_manual_credentials(session_key, org_id) and clear_manual_credentials()
save_manual_credentials(session_key, org_id) ==
    [kind |-> "object", session_key |-> session_key, org_id |-> org_id]
clear_manual_credentials == [kind |-> "missing"]

\* Credential resolution while the manual file is mf.
Resolve(mf) == get_credentials(mf, firefox, chrome, ccFile)
HasCredentials(mf) == has_credentials(mf, firefox, chrome, ccFile)

\* SettingsDialog(): the status label tells the source resolution yields;
\* an exception of get_credentials leaves the constructor.
StatusOf(creds) ==
    IF IsRaise(creds) THEN creds
    ELSE [kind |-> "dialog",
          status |-> IF creds # Nil THEN "Current source: " \o creds.source
                     ELSE "No credentials configured"]
SettingsDialog(mf) == StatusOf(Resolve(mf))

\* The addresses a UsageData object can be at.  The front end refers to one
\* record at a time, so two addresses tell a new object from the one
\* usage_data still refers to while fetch_usage runs.
Addresses == {"a", "b"}

\* UsageData(...): the constructor returns an object at an address no live
\* object is at, `live` being the address usage_data refers to.
NewObject(live) == CHOOSE at \in Addresses : at # live

\* A call of fetch_usage on a client holding creds: the credential the call
\* worked with, the record it built, and where.
Fetch(creds, boot, http, live) ==
    [kind |-> "returned", creds |-> creds, record |-> fetch_usage(creds, boot, http),
     at |-> NewObject(live), requests |-> RequestsOf(creds, boot)]

\* History: fetch_usage worked with the credential `used` while resolution
\* over the sources gave `resolved`, sent `requests`, and handed back
\* `result` at `at`.
Poll(mf, afterEdit, returned) ==
    [kind |-> "poll", used |-> returned.creds, resolved |-> Resolve(mf),
     afterEdit |-> afterEdit, result |-> returned.record, at |-> returned.at,
     requests |-> returned.requests]

\* What a handler leaves in the variables it can write; `returned` is what
\* its call of fetch_usage handed back, Nil when it made none.
Effect(a, ud, at, t, p, returned) ==
    [api |-> a, usage_data |-> ud, usage_at |-> at, tray |-> t, popup |-> p,
     polled |-> returned # Nil, returned |-> returned]

\* refresh() keeping the record it has when the poll failed.
Qt_refreshed_KeepsOnFailure(a, r, p, now) ==
    IF usage_data # Nil /\ ~r.record.is_connected
    THEN Effect(a, usage_data, usage_at, Qt_update_disconnected, p, r)
    ELSE Effect(a, r.record, r.at, Qt_update_display(r.record, now),
                IF p # Nil /\ p.visible THEN update_data(p, r.record, now) ELSE p,
                r)

\* refresh() from `self.usage_data = ...` on: usage_data refers to the
\* object r that fetch_usage handed back, and the record is displayed.
Qt_refreshed(a, r, p, now) ==
    Effect(a, r.record, r.at, Qt_update_display(r.record, now),
           IF p # Nil /\ p.visible THEN update_data(p, r.record, now) ELSE p,
           r)

\* refresh() with a client that resolves the sources again before it polls.
Qt_poll_ResolvesAgain(a, p, boot, http, now) ==
    Qt_refreshed(a, Fetch(Resolve(manualFile), boot, http, usage_at), p, now)

\* refresh() once the client a is there.
Qt_poll(a, p, boot, http, now) ==
    Qt_refreshed(a, Fetch(a.creds, boot, http, usage_at), p, now)

\* refresh() without a client, has_credentials() having answered `found`.
Qt_refresh_without(found, p, mf, boot, http, now) ==
    IF IsRaise(found) THEN Effect(Nil, usage_data, usage_at, tray, p, Nil)
    ELSE IF ~found.val
    THEN Effect(Nil, usage_data, usage_at, Qt_update_disconnected, p, Nil)
    ELSE Qt_poll(ClaudeAPI(Resolve(mf)), p, boot, http, now)

\* refresh() of a tray whose timer gives up once a poll has failed.
Qt_refresh_StopsAfterFailure(a, p, mf, boot, http, now) ==
    IF usage_data # Nil /\ ~usage_data.is_connected
    THEN Effect(a, usage_data, usage_at, tray, p, Nil)
    ELSE IF a = Nil THEN Qt_refresh_without(HasCredentials(mf), p, mf, boot, http, now)
    ELSE Qt_poll(a, p, boot, http, now)

\* UsageTrayIcon.refresh() entered with client a and popup p, the manual
\* file being mf.
Qt_refresh(a, p, mf, boot, http, now) ==
    IF a = Nil THEN Qt_refresh_without(HasCredentials(mf), p, mf, boot, http, now)
    ELSE Qt_poll(a, p, boot, http, now)

\* The refresh timer, "Refresh Now" and the popup's refresh button.
QtRefresh ==
    /\ frontend = "qt"
    /\ \E boot \in AppBoots, http \in AppHttp, now \in Nows :
         \E r \in {Qt_refresh(api, popup, manualFile, boot, http, now)} :
             /\ api' = r.api
             /\ usage_data' = r.usage_data
             /\ usage_at' = r.usage_at
             /\ tray' = r.tray
             /\ popup' = r.popup
             /\ lastPoll' = IF r.polled
                            THEN Poll(manualFile, edited, r.returned)
                            ELSE lastPoll
    /\ UNCHANGED <<envVars, frontend, dialog, idle, edited, probe>>

\* UsageTrayIcon._show_popup
QtShowPopup ==
    /\ frontend = "qt"
    /\ \E now \in Nows : popup' = QtUsagePopup(usage_data, now)
    /\ UNCHANGED <<envVars, frontend, api, usage_data, usage_at, tray, dialog, idle, edited,
                   lastPoll, probe>>

\* Escape, or a click outside the container: the popup closes.
QtClosePopup ==
    /\ frontend = "qt"
    /\ popup # Nil
    /\ popup.visible
    /\ popup' = [popup EXCEPT !.visible = FALSE]
    /\ UNCHANGED <<envVars, frontend, api, usage_data, usage_at, tray, dialog, idle, edited,
                   lastPoll, probe>>

\* UsageTrayIcon._show_settings up to dialog.exec(): the dialog opens unless
\* its constructor raises.
QtShowSettings ==
    /\ frontend = "qt"
    /\ dialog = Nil
    /\ \E d \in {SettingsDialog(manualFile)} :
         /\ ~IsRaise(d)
         /\ dialog' = d
    /\ UNCHANGED <<envVars, frontend, api, usage_data, usage_at, tray, popup, idle, edited,
                   lastPoll, probe>>

\* SettingsDialog._clear_credentials: the dialog stays open.
QtClear ==
    /\ frontend = "qt"
    /\ dialog # Nil
    /\ manualFile' = clear_manual_credentials
    /\ dialog' = [dialog EXCEPT !.status = "Credentials cleared"]
    /\ edited' = TRUE
    /\ UNCHANGED <<firefox, chrome, ccFile, frontend, api, usage_data, usage_at, tray, popup,
                   idle, lastPoll, probe>>

\* _show_settings after dialog.exec() returned true: the popup is closed;
\* has_credentials() having answered `found`, the client is built anew and
\* refresh() runs.
Qt_accepted(found, mf, boot, http, now) ==
    IF IsRaise(found) \/ ~found.val
    THEN Effect(api, usage_data, usage_at, tray, Nil, Nil)
    ELSE Qt_poll(ClaudeAPI(Resolve(mf)), Nil, boot, http, now)

\* SettingsDialog._save with key and org in the entries and, on accept, the
\* rest of _show_settings.
Qt_save(key, org, boot, http, now) ==
    \E mf \in {save_manual_credentials(strip(key), strip(org))} :
      IF mf.session_key = ""
      THEN /\ dialog' = [dialog EXCEPT !.status = "Session key is required"]
           /\ UNCHANGED <<manualFile, api, usage_data, usage_at, tray, popup, edited, lastPoll>>
      ELSE \E r \in {Qt_accepted(HasCredentials(mf), mf, boot, http, now)} :
             /\ manualFile' = mf
             /\ dialog' = Nil
             /\ edited' = TRUE
             /\ api' = r.api
             /\ usage_data' = r.usage_data
             /\ usage_at' = r.usage_at
             /\ tray' = r.tray
             /\ popup' = r.popup
             /\ lastPoll' = IF r.polled THEN Poll(mf, TRUE, r.returned)
                            ELSE lastPoll

\* The Save button of the Qt settings dialog.
QtSave ==
    /\ frontend = "qt"
    /\ dialog # Nil
    /\ \E key \in TypedKeys, org \in TypedOrgs, boot \in AppBoots, http \in AppHttp,
          now \in Nows :
         Qt_save(key, org, boot, http, now)
    /\ UNCHANGED <<firefox, chrome, ccFile, frontend, idle, probe>>

\* Cancel: dialog.exec() returns false and _show_settings does nothing more.
QtCancel ==
    /\ frontend = "qt"
    /\ dialog # Nil
    /\ dialog' = Nil
    /\ UNCHANGED <<envVars, frontend, api, usage_data, usage_at, tray, popup, idle, edited,
                   lastPoll, probe>>

\* UsageIndicator._init_api on client a, has_credentials() having answered
\* `found`: a new client when there are credentials, the old one otherwise.
Gtk_init_api_found(found, a, mf) ==
    IF IsRaise(found) THEN found
    ELSE IF found.val THEN ClaudeAPI(Resolve(mf))
    ELSE a
_init_api(a, mf) == Gtk_init_api_found(HasCredentials(mf), a, mf)

\* refresh() from its second test on, a1 being the client (or the exception)
\* the first part left: the client, the indicator, and whether _do_refresh
\* was queued.
Gtk_refresh_with(a1, a) ==
    IF IsRaise(a1) THEN [api |-> a, tray |-> tray, queued |-> FALSE]
    ELSE IF a1 = Nil THEN [api |-> a1, tray |-> Gtk_update_disconnected, queued |-> FALSE]
    ELSE [api |-> a1, tray |-> tray, queued |-> TRUE]

\* UsageIndicator.refresh() entered with client a.
Gtk_refresh(a, mf) ==
    IF a = Nil THEN Gtk_refresh_with(_init_api(a, mf), a) ELSE Gtk_refresh_with(a, a)

\* UsageIndicator._on_refresh ("Refresh Now"): _init_api, then refresh().
GtkOnRefresh ==
    /\ frontend = "gtk"
    /\ idle < MaxIdle
    /\ \E a \in {_init_api(api, manualFile)} :
         IF IsRaise(a) THEN UNCHANGED <<api, tray, idle>>
         ELSE \E r \in {Gtk_refresh(a, manualFile)} :
                /\ api' = r.api
                /\ tray' = r.tray
                /\ idle' = IF r.queued THEN idle + 1 ELSE idle
    /\ UNCHANGED <<envVars, frontend, usage_data, usage_at, popup, dialog, edited, lastPoll, probe>>

\* UsageIndicator.refresh() from the periodic timer or the popup's button.
GtkRefresh ==
    /\ frontend = "gtk"
    /\ idle < MaxIdle
    /\ \E r \in {Gtk_refresh(api, manualFile)} :
         /\ api' = r.api
         /\ tray' = r.tray
         /\ idle' = IF r.queued THEN idle + 1 ELSE idle
    /\ UNCHANGED <<envVars, frontend, usage_data, usage_at, popup, dialog, edited, lastPoll, probe>>

\* _do_refresh from `self.usage_data = ...` on: usage_data refers to the
\* object r that fetch_usage handed back, and the record is displayed.
Gtk_refreshed(a, r, p, now) ==
    Effect(a, r.record, r.at, Gtk_update_display(r.record, now),
           IF p # Nil /\ p.visible THEN Gtk_update(p, r.record, now) ELSE p,
           r)

\* _do_refresh with the client a.
Gtk_do_refresh(a, p, boot, http, now) ==
    Gtk_refreshed(a, Fetch(a.creds, boot, http, usage_at), p, now)

\* UsageIndicator._do_refresh, run by the main loop when idle.
GtkDoRefresh ==
    /\ frontend = "gtk"
    /\ idle > 0
    /\ idle' = idle - 1
    /\ IF api = Nil THEN UNCHANGED <<usage_data, usage_at, tray, popup, lastPoll>>
       ELSE \E boot \in AppBoots, http \in AppHttp, now \in Nows :
              \E r \in {Gtk_do_refresh(api, popup, boot, http, now)} :
                  /\ usage_data' = r.usage_data
                  /\ usage_at' = r.usage_at
                  /\ tray' = r.tray
                  /\ popup' = r.popup
                  /\ lastPoll' = Poll(manualFile, edited, r.returned)
    /\ UNCHANGED <<envVars, frontend, api, dialog, edited, probe>>

\* UsageIndicator._show_popup
GtkShowPopup ==
    /\ frontend = "gtk"
    /\ \E now \in Nows : popup' = GtkUsagePopup(usage_data, now)
    /\ UNCHANGED <<envVars, frontend, api, usage_data, usage_at, tray, dialog, idle, edited,
                   lastPoll, probe>>

\* Escape or the close button: the popup is destroyed.
GtkClosePopup ==
    /\ frontend = "gtk"
    /\ popup # Nil
    /\ popup.visible
    /\ popup' = [popup EXCEPT !.visible = FALSE]
    /\ UNCHANGED <<envVars, frontend, api, usage_data, usage_at, tray, dialog, idle, edited,
                   lastPoll, probe>>

\* UsageIndicator._do_show_settings up to dialog.run(), from the menu or from
\* the popup's Settings button, which destroys the popup first.
GtkShowSettings ==
    /\ frontend = "gtk"
    /\ dialog = Nil
    /\ \E fromPopup \in BOOLEAN, d \in {SettingsDialog(manualFile)} :
         /\ fromPopup => (popup # Nil /\ popup.visible)
         /\ fromPopup \/ ~IsRaise(d)
         /\ popup' = IF fromPopup THEN [popup EXCEPT !.visible = FALSE] ELSE popup
         /\ dialog' = IF IsRaise(d) THEN Nil ELSE d
    /\ UNCHANGED <<envVars, frontend, api, usage_data, usage_at, tray, idle, edited, lastPoll, probe>>

\* SettingsDialog._on_clear: no callback runs.
GtkClear ==
    /\ frontend = "gtk"
    /\ dialog # Nil
    /\ manualFile' = clear_manual_credentials
    /\ dialog' = [dialog EXCEPT !.status = "Manual credentials cleared"]
    /\ edited' = TRUE
    /\ UNCHANGED <<firefox, chrome, ccFile, frontend, api, usage_data, usage_at, tray, popup,
                   idle, lastPoll, probe>>

\* SettingsDialog._on_response, which ends dialog.run(): Save with a key
\* writes the file and runs _on_credentials_updated (_init_api, refresh());
\* Save without a key and Cancel do nothing.
GtkResponse ==
    /\ frontend = "gtk"
    /\ dialog # Nil
    /\ idle < MaxIdle
    /\ dialog' = Nil
    /\ \E ok \in BOOLEAN, key \in TypedKeys, org \in TypedOrgs :
         \E mf \in {save_manual_credentials(strip(key), strip(org))} :
           IF ~ok \/ mf.session_key = ""
           THEN UNCHANGED <<manualFile, api, tray, idle, edited>>
           ELSE /\ manualFile' = mf
                /\ edited' = TRUE
                /\ \E a \in {_init_api(api, mf)} :
                     IF IsRaise(a) THEN UNCHANGED <<api, tray, idle>>
                     ELSE \E r \in {Gtk_refresh(a, mf)} :
                            /\ api' = r.api
                            /\ tray' = r.tray
                            /\ idle' = IF r.queued THEN idle + 1 ELSE idle
    /\ UNCHANGED <<firefox, chrome, ccFile, frontend, usage_data, usage_at, popup, lastPoll, probe>>

\* A front end whose constructor builds no client and leaves the sources
\* unread until refresh() needs a credential.
Init_NoClientAtStart ==
    /\ manualFile \in AppManualFiles
    /\ firefox \in AppFirefoxDirs
    /\ chrome = [i \in 1..2 |-> [kind |-> "missing"]]
    /\ ccFile \in AppCCFiles
    /\ frontend \in {"qt", "gtk"}
    /\ ~IsRaise(Resolve(manualFile))
    /\ api = Nil
    /\ usage_data = Nil
    /\ usage_at = "None"
    /\ tray = IF frontend = "qt" THEN QtTrayInit ELSE GtkTrayInit
    /\ popup = Nil
    /\ dialog = Nil
    /\ idle = 0
    /\ edited = FALSE
    /\ lastPoll = Nil
    /\ probe = Nil

\* The state once the front end is constructed: the constructor builds the
\* client when resolution yields a credential.
Init ==
    /\ manualFile \in AppManualFiles
    /\ firefox \in AppFirefoxDirs
    /\ chrome = [i \in 1..2 |-> [kind |-> "missing"]]
    /\ ccFile \in AppCCFiles
    /\ frontend \in {"qt", "gtk"}
    /\ \E creds \in {Resolve(manualFile)} :
         /\ ~IsRaise(creds)
         /\ api = IF creds # Nil THEN ClaudeAPI(creds) ELSE Nil
    /\ usage_data = Nil
    /\ usage_at = "None"
    /\ tray = IF frontend = "qt" THEN QtTrayInit ELSE GtkTrayInit
    /\ popup = Nil
    /\ dialog = Nil
    /\ idle = 0
    /\ edited = FALSE
    /\ lastPoll = Nil
    /\ probe = Nil

Next ==
    \/ QtRefresh
    \/ QtShowPopup
    \/ QtClosePopup
    \/ QtShowSettings
    \/ QtClear
    \/ QtSave
    \/ QtCancel
    \/ GtkOnRefresh
    \/ GtkRefresh
    \/ GtkDoRefresh
    \/ GtkShowPopup
    \/ GtkClosePopup
    \/ GtkShowSettings
    \/ GtkClear
    \/ GtkResponse

Spec == Init /\ [][Next]_vars

\* The timers.  The Qt refresh timer is started by the constructor and never
\* stopped; the GLib timeout of start_refresh stays installed because
\* _periodic_refresh returns True; the main loop runs a queued idle callback.
Fairness ==
    /\ WF_vars(QtRefresh)
    /\ WF_vars(GtkRefresh)
    /\ WF_vars(GtkDoRefresh)

\* The start on a machine without Claude Code token file: the credential is
\* the manual one or none, and one without organization id, which makes a
\* poll send the bootstrap request, comes with Save.
InitLive == Init /\ ccFile = [kind |-> "missing"]

SpecLive == InitLive /\ [][Next]_vars /\ Fairness

-----------------------------------------------------------------------------
(* Claims about credential resolution. *)

\* What the priority order makes of the sources: the tag of the first source
\* that holds a usable value, "none" when none does.
ManualHoldsKey(mf) == mf.kind = "object" /\ Truthy(mf.session_key)
CCHoldsToken(cf) ==
    /\ cf.kind = "object"
    /\ cf.oauth.kind = "dict"
    /\ Truthy(cf.oauth.accessToken)
PrioritySource(mf, dir, dbs, cf) ==
    IF ManualHoldsKey(mf) THEN "manual"
    ELSE IF Truthy(_get_firefox_cookie(dir)) \/ Truthy(_get_chrome_cookie(dbs)) THEN "browser"
    ELSE IF CCHoldsToken(cf) THEN "claude_code"
    ELSE "none"
SourceOf(result) ==
    IF result = Nil THEN "none"
    ELSE IF IsRaise(result) THEN "raised"
    ELSE result.source

\* C1: get_credentials returns the credential of the first source, in the
\* order manual, browser (Firefox before Chrome), Claude Code, that holds a
\* usable value, and None when none does; a manual file without a non-empty
\* session_key counts as absent.
C1_PriorityOrder ==
    probe.kind = "get_credentials" =>
        /\ SourceOf(probe.result) = PrioritySource(manualFile, firefox, chrome, ccFile)
        /\ SourceOf(probe.result) = "browser" =>
              probe.result.session_key =
                 IF Truthy(_get_firefox_cookie(firefox)) THEN _get_firefox_cookie(firefox)
                 ELSE _get_chrome_cookie(chrome)

\* C9: get_credentials raises nothing, whatever the manual file and the
\* Claude Code token file contain.
C9_ResolutionTotal ==
    probe.kind = "get_credentials" => ~IsRaise(probe.result)

-----------------------------------------------------------------------------
(* Claims about fetch_usage and the response parser. *)

Fetched == probe.kind = "fetch_usage"
\* The usage GET was sent and answered with a status.
Answered == Fetched /\ probe.http.kind = "resp"
Answered200 == Answered /\ probe.http.status = 200
JsonObject200 == Answered200 /\ probe.http.body.kind = "object"

\* C2: both usage fractions of a record returned by fetch_usage lie in [0, 1].
C2_FractionsInUnitInterval ==
    Fetched =>
        /\ probe.result.short_term_usage \in 0..100
        /\ probe.result.long_term_usage \in 0..100

\* C4: with a credential and an organization id, the status of the usage GET
\* decides the result: 200 with a JSON body is connected without error, 401,
\* 403 (Cloudflare or not) and every other status give their error text, and
\* every status but 200 is not connected.
C4_StatusMapping ==
    Answered =>
        LET r == probe.result
            c == probe.http.status
        IN  /\ (c = 200 /\ probe.http.body.kind # "nonjson") =>
                    (r.is_connected /\ r.error = "None")
            /\ c = 401 => r.error = "Session expired. Update your session key."
            /\ (c = 403 /\ probe.http.cloudflare) =>
                    r.error = "Blocked by Cloudflare. Try again later."
            /\ (c = 403 /\ ~probe.http.cloudflare) => r.error = "Access forbidden"
            /\ c \notin {200, 401, 403} => r.error = HttpText(c)
            /\ c # 200 => ~r.is_connected

\* The fraction and the reset instant a section holds under the names of its
\* schema: the number under utilKey (0 when there is none), the instant under
\* tsKey (None when there is none, or none that can be read).
FractionIn(sec, utilKey) ==
    IF sec.kind = "dict" /\ sec[utilKey].kind = "num" THEN sec[utilKey].n ELSE 0
ResetIn(sec, tsKey) ==
    IF sec.kind = "dict" /\ sec[tsKey].kind = "secs" THEN <<sec[tsKey].t>> ELSE << >>
\* What the two schema shapes make of one window: the current key when the
\* body has it, else the legacy key when the body has it, else the defaults.
WindowOf(cur, leg) ==
    IF cur # Absent THEN <<FractionIn(cur, "utilization"), ResetIn(cur, "resets_at")>>
    ELSE IF leg # Absent THEN <<FractionIn(leg, "percentUsed"), ResetIn(leg, "resetsAt")>>
    ELSE <<0, << >> >>

\* C5: per window, the parser takes the current section when the body has
\* its key, else the legacy section, else 0 and no reset.
C5_BothSchemas ==
    JsonObject200 =>
        LET r == probe.result
            b == probe.http.body
        IN  /\ <<r.short_term_usage, r.short_term_reset>> = WindowOf(b.five_hour, b.dailyUsage)
            /\ <<r.long_term_usage, r.long_term_reset>> = WindowOf(b.seven_day, b.longTermUsage)

\* The long-term and the short-term values of a parse.
LongPart(r) == IF IsRaise(r) THEN <<"raise">> ELSE <<r.long_term_usage, r.long_term_reset>>
ShortPart(r) == IF IsRaise(r) THEN <<"raise">> ELSE <<r.short_term_usage, r.short_term_reset>>

\* C6: a body that differs from the one parsed only in its short-term
\* sections gives the same long-term values, and one that differs only in
\* its long-term sections the same short-term values.
C6_WindowsIndependent ==
    JsonObject200 =>
        LET b == probe.http.body
            here == _parse_usage_response(api.creds, b)
        IN  \A w \in WindowVals :
              /\ LongPart(_parse_usage_response(api.creds,
                        [b EXCEPT !.five_hour = w[1], !.dailyUsage = w[2]])) = LongPart(here)
              /\ ShortPart(_parse_usage_response(api.creds,
                        [b EXCEPT !.seven_day = w[1], !.longTermUsage = w[2]])) = ShortPart(here)

\* C8: fetch_usage returns a record and raises nothing, and the record is
\* either connected without an error or not connected with an error string.
C8_FetchTotal ==
    Fetched =>
        /\ ~IsRaise(probe.result)
        /\ probe.result.kind = "usage"
        /\ \/ probe.result.is_connected /\ probe.result.error = "None"
           \/ ~probe.result.is_connected /\ probe.result.error # "None"

\* An exception of the parser reached the last except clause of fetch_usage.
C8_Witness ==
    /\ Answered200
    /\ probe.http.body.kind = "object"
    /\ IsRaise(_parse_usage_response(api.creds, probe.http.body))
    /\ probe.result.error = "str(OverflowError)"

\* C10: the record carries the source tag of the client's credential on
\* every path, and "unknown" only when the client has no credential.
C10_SourceCarried ==
    Fetched =>
        /\ ~IsRaise(probe.result)
        /\ probe.result.credential_source =
              IF api.creds = Nil THEN "unknown" ELSE api.creds.source
        /\ probe.result.credential_source = "unknown" <=> api.creds = Nil

\* The success path of a client built on the Claude Code token.
C10_Witness ==
    /\ Answered200
    /\ probe.result.is_connected
    /\ api.creds # Nil
    /\ api.creds.source = "claude_code"
    /\ probe.result.credential_source = "claude_code"

-----------------------------------------------------------------------------
(* Claims about the running application. *)

\* The front end holds no usage record, or one that is not connected.
NotConnected == usage_data = Nil \/ ~usage_data.is_connected

\* The tray shows the grey icon(s) at zero and no figure of a record.
TrayDisconnected ==
    IF frontend = "qt"
    THEN /\ tray.icon = create_ring_icon(0, Grey)
         /\ tray.icon_7d = create_ring_icon(0, Grey)
         /\ tray.tip \in {"Claude 5-Hour Usage", "Claude 5-Hour - Not connected"}
         /\ tray.tip_7d \in {"Claude 7-Day Usage", "Claude 7-Day - Not connected"}
    ELSE tray = GtkTray(get_disconnected_icon_path, "")

\* The popup on screen shows what its widgets hold before any record is put
\* into them: empty rings and "--" for the time left.
PopupShowsNoRecord ==
    (popup # Nil /\ popup.visible) =>
        IF frontend = "qt"
        THEN /\ popup.ring = <<0, 0>>
             /\ popup.row_5h = <<"--", "--:--">>
             /\ popup.row_7d = <<"--", "--:--">>
        ELSE popup.content_visible =>
                /\ popup.short_term_progress = 0
                /\ popup.short_term_reset = "--"
                /\ popup.long_term_progress = 0
                /\ popup.long_term_reset = "--"

\* C3: in both front ends, while usage_data is absent or not connected the
\* tray shows the disconnected icon and the popup shows no usage fraction
\* and no reset time of that record.
C3_DisconnectedShown ==
    (frontend # "none" /\ NotConnected) => (TrayDisconnected /\ PopupShowsNoRecord)

\* A poll failed while the popup was on screen showing the figures of a
\* connected record, after the tray had shown them too.
C3_Witness ==
    /\ frontend = "qt"
    /\ usage_data # Nil
    /\ ~usage_data.is_connected
    /\ usage_data.error = "Timed out"
    /\ popup # Nil
    /\ popup.visible
    /\ tray.tip = "Claude 5-Hour - Not connected"

\* C7: a poll made after a settings edit is made by a client that holds the
\* credential that resolution yields from the sources as the edit left them.
C7_EditedCredentialUsed ==
    (lastPoll # Nil /\ lastPoll.afterEdit) => lastPoll.used = lastPoll.resolved


-----------------------------------------------------------------------------
(* Claims about the snapshot and the client's credential. *)

\* C11: every completed call of fetch_usage by a front end leaves usage_data
\* referring to the object that call constructed, which is not the object
\* usage_data referred to before, with the fields the call returned; and no
\* other step (the display of the record in the tray, the indicator or a
\* popup, the settings handlers) changes the object or any of its fields.
C11_FreshSnapshot ==
    [][ /\ lastPoll' # lastPoll =>
            /\ usage_data' = lastPoll'.result
            /\ usage_at' = lastPoll'.at
            /\ usage_at' # usage_at
        /\ lastPoll' = lastPoll => UNCHANGED <<usage_data, usage_at>> ]_vars

\* A second poll has replaced the first record, and a popup shows the new one.
C11_Witness ==
    /\ usage_at = "b"
    /\ usage_data = lastPoll.result
    /\ popup # Nil
    /\ popup.visible

\* C12: a call of fetch_usage works with the credential its client was built
\* with, whatever the sources hold by then; a poll by a client that exists
\* leaves the client as it was (nothing the call finds out is kept), and a
\* poll outside the Save handler leaves every credential file as it was.
C12_CredentialKept ==
    [][ lastPoll' # lastPoll =>
            /\ lastPoll'.used = api'.creds
            /\ dialog' = dialog =>
                  /\ UNCHANGED envVars
                  /\ api # Nil => api' = api ]_vars

\* A poll made with the credential of construction after the sources changed:
\* they resolve to something else now, and the files are as the edit left them.
C12_Witness ==
    /\ lastPoll # Nil
    /\ lastPoll.afterEdit
    /\ lastPoll.resolved # lastPoll.used
    /\ lastPoll.used = api.creds
    /\ manualFile = clear_manual_credentials

-----------------------------------------------------------------------------
(* Claims about what the front ends show. *)

\* The texts the front end has on screen: the tooltips, or the indicator
\* label, and the labels of the popup's visible widgets.
QtTexts ==
    {tray.tip, tray.tip_7d}
    \cup (IF popup # Nil /\ popup.visible
          THEN {popup.row_5h[1], popup.row_5h[2], popup.row_7d[1], popup.row_7d[2]}
          ELSE {})
GtkTexts ==
    {tray.label}
    \cup (IF popup # Nil /\ popup.visible /\ popup.content_visible
          THEN {popup.short_term_reset, popup.long_term_reset} ELSE {})
    \cup (IF popup # Nil /\ popup.visible /\ popup.error_visible
          THEN {popup.error_text} ELSE {})
ShownTexts ==
    IF frontend = "qt" THEN QtTexts ELSE IF frontend = "gtk" THEN GtkTexts ELSE {}

\* C13: while usage_data is the record of a failed poll, not connected and
\* with an error string, and the popup is on screen, that error string is
\* among the texts the tray (tooltip or label) and the popup show.
C13_ErrorShown ==
    (/\ usage_data # Nil
     /\ ~usage_data.is_connected
     /\ usage_data.error # "None"
     /\ popup # Nil
     /\ popup.visible) => usage_data.error \in ShownTexts

-----------------------------------------------------------------------------
(* Claims about the requests of a poll. *)

\* How many of the requests of the call went to the endpoint `name`.
Sent(name) == Cardinality({i \in 1..Len(probe.requests) : probe.requests[i] = name})
UsageGetFailed(exc) == Fetched /\ probe.http.kind = "exc" /\ probe.http.exc = exc

\* C14 as stated: a call of fetch_usage sends at most one request to the
\* usage endpoint, a timeout of it gives "Timed out" and a connection failure
\* "Connection failed" with that one request sent, and the call sends no
\* request other than the usage GET.
C14_SingleGet ==
    Fetched =>
        /\ Sent("usage") <= 1
        /\ UsageGetFailed("Timeout") =>
              probe.result.error = "Timed out" /\ Sent("usage") = 1
        /\ UsageGetFailed("ConnectionError") =>
              probe.result.error = "Connection failed" /\ Sent("usage") = 1
        /\ Len(probe.requests) = Sent("usage")

\* C14, amended: as above, except that the call also sends one GET of
\* /api/bootstrap, before the usage GET, exactly when the client's
\* credential has no organization id; it sends nothing else, and no usage
\* GET when the bootstrap answer yields no organization id.
C14_OneUsageGet ==
    Fetched =>
        /\ Sent("usage") <= 1
        /\ UsageGetFailed("Timeout") =>
              probe.result.error = "Timed out" /\ Sent("usage") = 1
        /\ UsageGetFailed("ConnectionError") =>
              probe.result.error = "Connection failed" /\ Sent("usage") = 1
        /\ probe.requests \in {<< >>, <<"usage">>, <<"bootstrap">>, <<"bootstrap", "usage">>}
        /\ Sent("bootstrap") = 1 <=> (api.creds # Nil /\ ~Truthy(api.creds.org_id))
        /\ probe.requests = <<"bootstrap">> =>
              probe.result.error = "Could not get organization ID. Check your session key."

\* The usage GET of a client without organization id timed out: two requests
\* were sent, the second one once.
C14_Witness ==
    /\ UsageGetFailed("Timeout")
    /\ probe.requests = <<"bootstrap", "usage">>
    /\ probe.result.error = "Timed out"

-----------------------------------------------------------------------------
(* Claims about when credentials are resolved and when polls happen. *)

TrayConnected ==
    IF frontend = "qt"
    THEN tray.tip # Qt_update_disconnected.tip /\ tray.tip # QtTrayInit.tip
    ELSE tray.icon # get_disconnected_icon_path /\ tray.label # ""

PolledAt(at) == lastPoll # Nil /\ lastPoll.at = at

\* C16: under the timers, every poll, whatever its outcome, is followed by a
\* later poll (the record of the last poll is replaced by a new one), a
\* failed poll in particular; and whenever the last poll succeeded the tray
\* shows the connected display, so that a success after a failure brings it
\* back from the disconnected one.
C16_PollingGoesOn ==
    /\ \A at \in Addresses : PolledAt(at) ~> (lastPoll # Nil /\ lastPoll.at # at)
    /\ [](usage_data # Nil /\ usage_data.is_connected => TrayConnected)
\* A poll timed out while the GTK popup was open, which still holds the
\* text, and a later poll succeeded: the indicator shows the record.
C16_Witness ==
    /\ frontend = "gtk"
    /\ popup # Nil
    /\ popup.error_text = "Timed out"
    /\ usage_data # Nil
    /\ usage_data.is_connected
    /\ TrayConnected
-----------------------------------------------------------------------------
(* Claims about the display functions. *)

\* C17: for every integer utilization u in 0..100 the record the parser
\* builds from it has short_term_percent = u and long_term_percent = u.
C17_PercentExact ==
    (probe.kind = "percent" /\ probe.utilization \in 0..100) =>
        /\ probe.short_term_percent = probe.utilization
        /\ probe.long_term_percent = probe.utilization
\* The countdown the claim describes for the reset time r read at `now`.
CountdownText(r, now) ==
    IF r = << >> THEN "Unknown"
    ELSE LET at == IF Len(r) = 2 /\ r[2] # "None" THEN r[1] - UtcOffset(r[2]) ELSE r[1]
             s == at - now
             H == s \div 3600
             M == (s % 3600) \div 60
         IN  IF at <= now THEN "Now"
             ELSE IF H > 0 THEN ToString(H) \o "h " \o ToString(M) \o "m"
             ELSE ToString(M) \o "m"

\* C18: _format_reset gives "Unknown" for an absent reset time, "Now" for
\* one not after the clock reading, and otherwise, with s the whole seconds
\* left, H = s div 3600 and M = (s mod 3600) div 60, "Hh Mm" when H > 0 and
\* "Mm" when H = 0, H uncapped; a reset time without time zone counts as UTC.
C18_Countdown ==
    probe.kind = "_format_reset" =>
        probe.text = CountdownText(probe.reset_time, probe.now)

\* A naive reset time a week after the epoch, read one minute after it.
C18_Witness ==
    /\ probe.kind = "_format_reset"
    /\ probe.reset_time = <<604800, "None">>
    /\ probe.now = 60
    /\ probe.text = "167h 59m"
\* C19: the colour of the 5-hour ring, in the tray icon and in the generated
\* icon, is red for a usage percentage at or above config.critical_threshold,
\* orange for one below it and at or above config.warning_threshold, and
\* green for a lower one.
C19_ThresholdsGovern ==
    probe.kind = "color" =>
        LET expected ==
                IF probe.usage >= probe.config.critical_threshold THEN "#EF4444"
                ELSE IF probe.usage >= probe.config.warning_threshold THEN "#F97316"
                ELSE "#22C55E"
        IN  probe.tray = expected /\ probe.icon = expected
\* C20: the label of the GTK indicator is empty when there is no record or
\* the record is not connected; otherwise it is the short window's percent
\* followed by the short window's countdown when short_term_percent >=
\* long_term_percent, and the long window's percent followed by the long
\* window's countdown when not: never the percent of one window with the
\* countdown of the other.
C20_LabelOneWindow ==
    probe.kind = "_update_display" =>
        LET ud == probe.record
            label == probe.tray.label
        IN  IF ud = Nil THEN label = ""
            ELSE IF ~ud.is_connected THEN label = ""
            ELSE IF short_term_percent(ud) >= long_term_percent(ud)
            THEN label = ToString(short_term_percent(ud)) \o "% - "
                            \o _format_reset(ud.short_term_reset, probe.now)
            ELSE label = ToString(long_term_percent(ud)) \o "% - "
                            \o _format_reset(ud.long_term_reset, probe.now)

\* The 7-day quota is the fuller one and the two countdowns differ.
C20_Witness ==
    /\ probe.kind = "_update_display"
    /\ probe.record # Nil
    /\ probe.record.is_connected
    /\ probe.record.short_term_usage = 50
    /\ probe.record.short_term_reset = <<3600>>
    /\ probe.record.long_term_usage = 100
    /\ probe.record.long_term_reset = <<604800>>
    /\ probe.now = 0
    /\ probe.tray.label = "100% - 168h 0m"
-----------------------------------------------------------------------------
(* Claims about the organization id. *)

\* The bootstrap answers the claim lists as failed discovery: an exception, a
\* status other than 200, or a body with no membership and no organization.
ListedDiscoveryFailure(boot) ==
    \/ boot.kind = "exc"
    \/ boot.status # 200
    \/ boot.body.kind # "object"
    \/ /\ ~(boot.body.account.kind = "dict" /\ boot.body.account.memberships.kind = "list")
       /\ boot.body.organizations.kind # "list"

\* C21: a call on a client without credential returns "No credentials. Click
\* Settings to configure." and sends no request; a call on a client whose
\* credential has no organization id, discovery failing in one of the listed
\* ways, returns "Could not get organization ID. Check your session key." and
\* sends no usage GET; both records are not connected; and a usage GET is
\* sent only by a client with a credential and an organization id, stored or
\* discovered.
C21_GetNeedsCredentialAndOrg ==
    Fetched =>
        /\ api.creds = Nil =>
              /\ probe.result.error = "No credentials. Click Settings to configure."
              /\ ~probe.result.is_connected
              /\ probe.requests = << >>
        /\ (/\ api.creds # Nil
            /\ ~Truthy(api.creds.org_id)
            /\ ListedDiscoveryFailure(probe.boot)) =>
              /\ probe.result.error = "Could not get organization ID. Check your session key."
              /\ ~probe.result.is_connected
              /\ Sent("usage") = 0
        /\ Sent("usage") > 0 =>
              /\ api.creds # Nil
              /\ Truthy(api.creds.org_id) \/ ~ListedDiscoveryFailure(probe.boot)

\* Discovery was answered 200 with a body that names no organization.
C21_Witness ==
    /\ Fetched
    /\ api.creds # Nil
    /\ api.creds.org_id = ""
    /\ probe.boot.kind = "resp"
    /\ probe.boot.status = 200
    /\ probe.boot.body.kind = "object"
    /\ probe.boot.body.organizations.kind = "empty"
    /\ probe.requests = <<"bootstrap">>
    /\ probe.result.error = "Could not get organization ID. Check your session key."
\* C22: every poll made with a credential whose organization id is empty
\* or None, the manual credential saved with an empty Organization ID field
\* among them, sends the bootstrap request first and a usage GET only after
\* it; the poll leaves the client with the credential it had, the id it
\* found not stored, and outside the Save handler leaves the manual file as
\* it was, so that the next poll of the client does the same.
C22_EmptyOrgIsDiscovered ==
    [][ (lastPoll' # lastPoll /\ ~Truthy(lastPoll'.used.org_id)) =>
            /\ lastPoll'.requests \in {<<"bootstrap">>, <<"bootstrap", "usage">>}
            /\ api'.creds = lastPoll'.used
            /\ dialog' = dialog => manualFile' = manualFile ]_vars

\* A client built on the key saved with an empty Organization ID field has
\* polled: discovery, then the usage GET, and its credential is as saved.
C22_Witness ==
    /\ lastPoll # Nil
    /\ lastPoll.used = ClaudeCredentials("mk2", "", "manual", "unknown")
    /\ manualFile = save_manual_credentials("mk2", "")
    /\ lastPoll.requests = <<"bootstrap", "usage">>
    /\ lastPoll.result.is_connected
    /\ api.creds = lastPoll.used
-----------------------------------------------------------------------------
(* Manual credential storage on its own: SpecStore.  The file is absent at  *)
(* the start; probe keeps the calls made so far and what                    *)
(* get_manual_credentials returns after the last one.                       *)

\* Largest number of calls of save_manual_credentials and
\* clear_manual_credentials in a run.
MaxCalls == 3

\* The arguments of save_manual_credentials.
SavedKeys == {"", "mk1", "mk2"}
SavedOrgs == {"", "org1", "None"}

StoreProbe(log, mf) == [kind |-> "store", log |-> log, got |-> get_manual_credentials(mf)]

InitStore ==
    /\ NoFiles
    /\ NoFrontEnd
    /\ api = Nil
    /\ probe = StoreProbe(<< >>, manualFile)

CallSaveManual ==
    /\ Len(probe.log) < MaxCalls
    /\ \E k \in SavedKeys, o \in SavedOrgs :
         /\ manualFile' = save_manual_credentials(k, o)
         /\ probe' = StoreProbe(Append(probe.log,
                                       [op |-> "save", session_key |-> k, org_id |-> o]),
                                manualFile')
    /\ UNCHANGED <<firefox, chrome, ccFile, appVars>>

CallClearManual ==
    /\ Len(probe.log) < MaxCalls
    /\ manualFile' = clear_manual_credentials
    /\ probe' = StoreProbe(Append(probe.log, [op |-> "clear"]), manualFile')
    /\ UNCHANGED <<firefox, chrome, ccFile, appVars>>

NextStore == CallSaveManual \/ CallClearManual

SpecStore == InitStore /\ [][NextStore]_vars

\* C23: after any sequence of saves and clears, get_manual_credentials
\* returns the arguments of the last call when that is a save with a
\* non-empty key, and None when it is a clear or there was no call; the
\* file after a clear is the same whatever preceded (a second clear changes
\* nothing), and after a save it holds the arguments of that save alone.
C23_StorageRoundTrip ==
    probe.kind = "store" =>
        LET n == Len(probe.log)
        IN  IF n = 0 THEN probe.got = Nil
            ELSE IF probe.log[n].op = "clear"
            THEN probe.got = Nil /\ manualFile.kind = "missing"
            ELSE /\ probe.log[n].session_key # "" =>
                       probe.got = [kind |-> "tuple",
                                    session_key |-> probe.log[n].session_key,
                                    org_id |-> probe.log[n].org_id]
                 /\ manualFile.kind = "object"
                 /\ manualFile.session_key = probe.log[n].session_key
                 /\ manualFile.org_id = probe.log[n].org_id

\* A save with organization id, a clear, and a save of another key without.
C23_Witness ==
    /\ probe.kind = "store"
    /\ probe.log = <<[op |-> "save", session_key |-> "mk1", org_id |-> "org1"],
                     [op |-> "clear"],
                     [op |-> "save", session_key |-> "mk2", org_id |-> ""]>>
    /\ probe.got = [kind |-> "tuple", session_key |-> "mk2", org_id |-> ""]
-----------------------------------------------------------------------------
(* The Qt settings dialog with the Save presses on record: SpecSettings.    *)
(* probe holds the session key typed at the last press of Save, and flip    *)
(* changes with every press.                                                *)

Pressed(flip, key) == [kind |-> "pressed", flip |-> flip, key |-> key]

\* The Qt front end constructed on a machine without browser profile and
\* without Claude Code token file.
InitSettings ==
    /\ manualFile \in AppManualFiles
    /\ firefox = << >>
    /\ chrome = [i \in 1..2 |-> [kind |-> "missing"]]
    /\ ccFile = [kind |-> "missing"]
    /\ frontend = "qt"
    /\ \E creds \in {Resolve(manualFile)} :
         /\ ~IsRaise(creds)
         /\ api = IF creds # Nil THEN ClaudeAPI(creds) ELSE Nil
    /\ usage_data = Nil
    /\ usage_at = "None"
    /\ tray = QtTrayInit
    /\ popup = Nil
    /\ dialog = Nil
    /\ idle = 0
    /\ edited = FALSE
    /\ lastPoll = Nil
    /\ probe = Pressed(FALSE, "")

PressSave ==
    /\ frontend = "qt"
    /\ dialog # Nil
    /\ \E key \in TypedKeys, org \in TypedOrgs, boot \in AppBoots, http \in AppHttp,
          now \in Nows :
         /\ Qt_save(key, org, boot, http, now)
         /\ probe' = Pressed(~probe.flip, key)
    /\ UNCHANGED <<firefox, chrome, ccFile, frontend, idle>>

NextSettings ==
    \/ QtRefresh
    \/ QtShowSettings
    \/ QtClear
    \/ PressSave
    \/ QtCancel

SpecSettings == InitSettings /\ [][NextSettings]_vars

\* C24: a press of Save in the Qt dialog with an empty or whitespace-only
\* session key leaves the stored manual credentials as they are, leaves the
\* dialog open with the status "Session key is required", and leaves the
\* client, the snapshot, the tray and the popup alone with no poll made; a
\* press with a non-empty key stores the key without the surrounding spaces.
C24_EmptyKeyRejected ==
    [][probe' # probe =>
         IF probe'.key \in {"", "  "}
         THEN /\ manualFile' = manualFile
              /\ dialog' # Nil
              /\ dialog'.status = "Session key is required"
              /\ api' = api
              /\ usage_data' = usage_data
              /\ usage_at' = usage_at
              /\ tray' = tray
              /\ popup' = popup
              /\ lastPoll' = lastPoll
         ELSE /\ manualFile'.kind = "object"
              /\ manualFile'.session_key = "mk2"
              /\ dialog' = Nil]_vars

\* Save was pressed with only spaces in the key entry while a key was
\* stored and a snapshot was on display.
C24_Witness ==
    /\ probe.kind = "pressed"
    /\ probe.key = "  "
    /\ dialog # Nil
    /\ dialog.status = "Session key is required"
    /\ manualFile.kind = "object"
    /\ usage_data # Nil
-----------------------------------------------------------------------------
(* The icon cache of the GTK indicator: SpecIcons.  probe is the            *)
(* DynamicIconManager: its _cache, the files of its icon directory, and the *)
(* last call with the path it returned.  Usage is in hundredths.            *)

\* The usage fractions the cache is tried on: for the short window both
\* sides of the 70% colour threshold within one cache bucket, for the long
\* window both sides of the 90% threshold.
ShortIconUsages == {0, 68, 71}
LongIconUsages == {0, 88, 91}

\* What generate_dual_ring_svg(short_term_usage, long_term_usage) draws.
generate_dual_ring_svg(short_term_usage, long_term_usage) ==
    [outer_color |-> get_color_for_usage(short_term_usage, FALSE),
     inner_color |-> get_color_for_usage(long_term_usage, TRUE),
     outer_angle |-> IF short_term_usage < 100 THEN short_term_usage ELSE 100,
     inner_angle |-> IF long_term_usage < 100 THEN long_term_usage ELSE 100]

\* DynamicIconManager(): an empty cache and an empty directory.
IconManager(cache, files, call, path) ==
    [kind |-> "icons", _cache |-> cache, files |-> files, call |-> call, path |-> path]

InitIcons ==
    /\ NoFiles
    /\ NoFrontEnd
    /\ api = Nil
    /\ probe = IconManager(<< >>, << >>, [op |-> "__init__"], "None")

\* DynamicIconManager.get_icon_path(short_term, long_term)
CallGetIconPath ==
    /\ \E short_term \in ShortIconUsages, long_term \in LongIconUsages :
         LET cache_key == ToString(CacheKey(short_term)) \o "_"
                              \o ToString(CacheKey(long_term))
             icon_path == "usage_" \o cache_key \o ".svg"
             call      == [op |-> "get_icon_path", short_term |-> short_term,
                           long_term |-> long_term]
         IN  IF cache_key \in DOMAIN probe._cache
             THEN probe' = IconManager(probe._cache, probe.files, call,
                                       probe._cache[cache_key])
             ELSE probe' = IconManager(
                               probe._cache @@ (cache_key :> icon_path),
                               (icon_path :> generate_dual_ring_svg(short_term, long_term))
                                   @@ probe.files,
                               call, icon_path)
    /\ UNCHANGED <<envVars, appVars>>

\* DynamicIconManager.get_disconnected_icon_path()
CallGetDisconnectedIconPath ==
    /\ LET call == [op |-> "get_disconnected_icon_path"]
       IN  IF "disconnected" \in DOMAIN probe._cache
           THEN probe' = IconManager(probe._cache, probe.files, call,
                                     probe._cache["disconnected"])
           ELSE probe' = IconManager(
                             probe._cache @@ ("disconnected" :> "disconnected.svg"),
                             ("disconnected.svg" :> generate_dual_ring_svg(0, 0))
                                 @@ probe.files,
                             call, "disconnected.svg")
    /\ UNCHANGED <<envVars, appVars>>

NextIcons == CallGetIconPath \/ CallGetDisconnectedIconPath

SpecIcons == InitIcons /\ [][NextIcons]_vars

\* C25: the file get_icon_path(s, l) returns carries the ring colours
\* get_color_for_usage gives for s and for l, also when an earlier call of
\* the same cache bucket lay on the other side of a colour threshold; it is
\* never the disconnected icon, and the disconnected icon stays the one
\* get_disconnected_icon_path generated.
C25_IconOfTheState ==
    probe.kind = "icons" =>
        /\ probe.call.op = "get_icon_path" =>
              /\ probe.path # "disconnected.svg"
              /\ probe.files[probe.path].outer_color
                     = get_color_for_usage(probe.call.short_term, FALSE)
              /\ probe.files[probe.path].inner_color
                     = get_color_for_usage(probe.call.long_term, TRUE)
        /\ probe.call.op = "get_disconnected_icon_path" =>
              probe.path = "disconnected.svg"
        /\ "disconnected.svg" \in DOMAIN probe.files =>
              probe.files["disconnected.svg"] = generate_dual_ring_svg(0, 0)
-----------------------------------------------------------------------------
(* The periodic refresh timer of the GTK indicator: SpecTimer.  probe is    *)
(* the GLib main context as the indicator sees it: the registered timeout   *)
(* sources, the id GLib hands out next, refresh_timeout_id (0 for None:     *)
(* GLib ids are positive and the code tests the id for truth), and the last *)
(* call.  session.json may be rewritten from outside between the calls.     *)

\* Largest id GLib.timeout_add hands out in a run.
MaxTimerId == 3

TimerManualFiles == AppManualFiles \cup {[kind |-> "nonobject"]}

GLibContext(id, timers, next_id, call) ==
    [kind |-> "glib", refresh_timeout_id |-> id, timers |-> timers,
     next_id |-> next_id, call |-> call]

\* refresh() leaves by the exception of _init_api.
Gtk_refresh_raises(a, mf) == a = Nil /\ IsRaise(_init_api(a, mf))

\* start_refresh on the context g; raised tells that refresh() raised, which
\* ends the method before timeout_add.
start_refresh(g, raised) ==
    LET timers == IF g.refresh_timeout_id # 0
                  THEN g.timers \ {g.refresh_timeout_id} ELSE g.timers
    IN  IF raised
        THEN GLibContext(g.refresh_timeout_id, timers, g.next_id, "start_refresh")
        ELSE GLibContext(g.next_id, timers \cup {g.next_id}, g.next_id + 1,
                         "start_refresh")

\* stop_refresh on the context g.
stop_refresh(g) ==
    IF g.refresh_timeout_id # 0
    THEN GLibContext(0, g.timers \ {g.refresh_timeout_id}, g.next_id, "stop_refresh")
    ELSE GLibContext(g.refresh_timeout_id, g.timers, g.next_id, "stop_refresh")

\* The GTK indicator constructed on a machine without browser profile and
\* without Claude Code token file; no timer yet.
InitTimer ==
    /\ manualFile \in AppManualFiles
    /\ firefox = << >>
    /\ chrome = [i \in 1..2 |-> [kind |-> "missing"]]
    /\ ccFile = [kind |-> "missing"]
    /\ frontend = "gtk"
    /\ \E creds \in {Resolve(manualFile)} :
         /\ ~IsRaise(creds)
         /\ api = IF creds # Nil THEN ClaudeAPI(creds) ELSE Nil
    /\ usage_data = Nil
    /\ usage_at = "None"
    /\ tray = GtkTrayInit
    /\ popup = Nil
    /\ dialog = Nil
    /\ idle = 0
    /\ edited = FALSE
    /\ lastPoll = Nil
    /\ probe = GLibContext(0, {}, 1, "__init__")

\* session.json is rewritten by the user or another program.
EditSessionFile ==
    /\ manualFile' \in TimerManualFiles \ {manualFile}
    /\ UNCHANGED <<firefox, chrome, ccFile, appVars, probe>>

\* UsageIndicator.start_refresh
CallStartRefresh ==
    /\ probe.next_id <= MaxTimerId
    /\ idle < MaxIdle
    /\ \E r \in {Gtk_refresh(api, manualFile)} :
         /\ api' = r.api
         /\ tray' = r.tray
         /\ idle' = IF r.queued THEN idle + 1 ELSE idle
    /\ probe' = start_refresh(probe, Gtk_refresh_raises(api, manualFile))
    /\ UNCHANGED <<envVars, frontend, usage_data, usage_at, popup, dialog, edited, lastPoll>>

\* UsageIndicator.stop_refresh
CallStopRefresh ==
    /\ probe' = stop_refresh(probe)
    /\ UNCHANGED <<envVars, appVars>>

\* A registered timeout fires: _periodic_refresh runs refresh() and returns
\* True, which keeps the source; when refresh() raises, the callback has no
\* return value and the binding keeps or drops the source.
TimerFires ==
    /\ idle < MaxIdle
    /\ \E t \in probe.timers, kept \in BOOLEAN :
         /\ kept \/ Gtk_refresh_raises(api, manualFile)
         /\ probe' = GLibContext(probe.refresh_timeout_id,
                                 IF kept THEN probe.timers ELSE probe.timers \ {t},
                                 probe.next_id, "_periodic_refresh")
    /\ \E r \in {Gtk_refresh(api, manualFile)} :
         /\ api' = r.api
         /\ tray' = r.tray
         /\ idle' = IF r.queued THEN idle + 1 ELSE idle
    /\ UNCHANGED <<envVars, frontend, usage_data, usage_at, popup, dialog, edited, lastPoll>>

NextTimer ==
    \/ EditSessionFile
    \/ CallStartRefresh
    \/ CallStopRefresh
    \/ TimerFires
    \/ GtkDoRefresh

SpecTimer == InitTimer /\ [][NextTimer]_vars

\* C26: at most one refresh timer is registered; refresh_timeout_id is None
\* with no timer registered or the id of the one registered timer; and a
\* periodic refresh fires only while refresh_timeout_id is set, that is
\* not between a stop_refresh and the next start_refresh.
C26_OneRefreshTimer ==
    probe.kind = "glib" =>
        /\ Cardinality(probe.timers) <= 1
        /\ IF probe.refresh_timeout_id = 0
           THEN probe.timers = {}
           ELSE probe.timers = {probe.refresh_timeout_id}
        /\ probe.call = "_periodic_refresh" => probe.refresh_timeout_id # 0
-----------------------------------------------------------------------------
(* The reset timestamps of a usage response: SpecTimestamps.  One call of   *)
(* fetch_usage on a body whose two windows carry a usage and a timestamp,   *)
(* next to the calls on the same body without one of the timestamps.        *)

\* The timestamps tried: null, 0, "", a string that is no ISO date, a list,
\* true, 1e300, 7200, 1.7e12 (milliseconds), 1e12, 1e21 and 1e24.
TimestampsTried ==
    {[kind |-> k] : k \in {"null", "zero", "emptystr", "badstr", "list", "true", "huge"}}
    \cup {Secs(7200), E3(1700000000, 1), E3(1000000000, 1), E3(1, 7), E3(1, 8)}

\* A window of the body in the schema of `style`.
TimestampWindow(style, usage, ts) ==
    IF style = "cur" THEN <<Dict(Num(usage), ts, Absent, Absent), Absent>>
    ELSE <<Absent, Dict(Absent, Absent, Num(usage), ts)>>

TimestampBody(short, long) ==
    [kind |-> "object", five_hour |-> short[1], dailyUsage |-> short[2],
     seven_day |-> long[1], longTermUsage |-> long[2]]

\* fetch_usage of a client with organization id on status 200 with the body.
ParsedFrom(body) ==
    fetch_usage(ClaudeCredentials("mk1", "org1", "manual", "unknown"),
                [kind |-> "unused"],
                [kind |-> "resp", status |-> 200, cloudflare |-> FALSE, body |-> body])

InitTimestamps ==
    /\ NoFiles
    /\ NoFrontEnd
    /\ api = Nil
    /\ probe = Nil

CallParseTimestamps ==
    /\ probe = Nil
    /\ \E short_style \in {"cur", "leg"}, long_style \in {"cur", "leg"},
          short_ts \in TimestampsTried \cup {Absent},
          long_ts \in TimestampsTried \cup {Absent} :
         probe' = [kind |-> "timestamps", short_style |-> short_style,
                   long_style |-> long_style, short_ts |-> short_ts, long_ts |-> long_ts,
                   result |-> ParsedFrom(TimestampBody(
                                  TimestampWindow(short_style, 50, short_ts),
                                  TimestampWindow(long_style, 10, long_ts))),
                   short_omitted |-> ParsedFrom(TimestampBody(
                                  TimestampWindow(short_style, 50, Absent),
                                  TimestampWindow(long_style, 10, long_ts))),
                   long_omitted |-> ParsedFrom(TimestampBody(
                                  TimestampWindow(short_style, 50, short_ts),
                                  TimestampWindow(long_style, 10, Absent)))]
    /\ UNCHANGED <<envVars, appVars>>

NextTimestamps == CallParseTimestamps

SpecTimestamps == InitTimestamps /\ [][NextTimestamps]_vars

\* The timestamps the claim lists as giving no reset instant.
NoInstant ==
    {[kind |-> k] : k \in {"null", "zero", "emptystr", "badstr", "list", "true", "huge"}}
    \cup {E3(1000000000, 1), E3(1, 7), E3(1, 8)}

\* C27: a timestamp that is null, 0, "", no ISO date, too large for a date or
\* of another type leaves its own reset instant None, and is_connected, both
\* usage fractions and the other window's reset instant are what the same
\* response without that timestamp gives; in a connected record a number
\* above 1e12 is read as milliseconds and another number as seconds.
C27_OnlyOwnResetField ==
    probe.kind = "timestamps" =>
        /\ probe.short_ts \in NoInstant =>
              /\ probe.result.short_term_reset = << >>
              /\ probe.result.is_connected = probe.short_omitted.is_connected
              /\ probe.result.short_term_usage = probe.short_omitted.short_term_usage
              /\ probe.result.long_term_usage = probe.short_omitted.long_term_usage
              /\ probe.result.long_term_reset = probe.short_omitted.long_term_reset
        /\ probe.long_ts \in NoInstant =>
              /\ probe.result.long_term_reset = << >>
              /\ probe.result.is_connected = probe.long_omitted.is_connected
              /\ probe.result.short_term_usage = probe.long_omitted.short_term_usage
              /\ probe.result.long_term_usage = probe.long_omitted.long_term_usage
              /\ probe.result.short_term_reset = probe.long_omitted.short_term_reset
        /\ probe.result.is_connected =>
              /\ probe.short_ts = E3(1700000000, 1) =>
                    probe.result.short_term_reset = <<1700000000>>
              /\ probe.short_ts = Secs(7200) => probe.result.short_term_reset = <<7200>>
              /\ probe.long_ts = E3(1700000000, 1) =>
                    probe.result.long_term_reset = <<1700000000>>
              /\ probe.long_ts = Secs(7200) => probe.result.long_term_reset = <<7200>>

=============================================================================
